---- MODULE Spec2Model ----
(***************************************************************************)
(* Maji water platform backend: the order / payment-escrow state machine   *)
(* of backend/src/routes/orders.routes.ts as a state machine over the      *)
(* database rows the handlers read and write.  Every handler is split at   *)
(* its awaits: one step for the reads and the checks made on them, one     *)
(* step per database write (a prisma.$transaction batch is one write).     *)
(***************************************************************************)
EXTENDS Integers, Sequences, FiniteSets, TLC

VARIABLES
    orders,        \* Order rows: order id -> record
    transactions,  \* Transaction rows, keyed by their unique orderId
    ratings,       \* Rating rows, keyed by their unique orderId
    vendors,       \* Vendor rows: vendor id -> record
    products,      \* Product rows: product id -> record
    reputation,    \* User.reputation: user id -> Nat
    alerts,        \* Alert rows: alert id -> record
    reports,       \* Report rows: report id -> record
    pc,            \* per request slot: where its handler stands
    req,           \* per request slot: the request (route, actor, params, body)
    snap,          \* per request slot: the rows the handler read
    res,           \* per request slot: the response
    otpCodes,      \* OtpCode rows, keyed by their phone
    userPhones,    \* phones of the User rows created at sign-in
    refreshTokens, \* phones of the users holding a RefreshToken row
    wrongCodes,    \* history: phone -> verifyOtp calls with a code other than the issued one
    issuedCodes,   \* history: phone -> the code requestOtp issued last, and whether it signed in
    storage,       \* the mobile client's AsyncStorage: access and refresh token
    sent           \* history: requests and token refreshes sent for the client's call in flight

authVars == <<otpCodes, userPhones, refreshTokens, wrongCodes, issuedCodes,
              storage, sent>>
dbVars  == <<orders, transactions, ratings, vendors, products, reputation,
             alerts, reports, authVars>>
reqVars == <<pc, req, snap, res>>
vars    == <<orders, transactions, ratings, vendors, products, reputation,
             alerts, reports, pc, req, snap, res, authVars>>

----------------------------------------------------------------------------
(* Bounds of the model *)

\* Requests in flight at once under SpecConc.
MaxInFlight == 2

\* Request slots
ConcProcs == 1..MaxInFlight
SeqProcs  == {1}
AllProcs  == ConcProcs \cup SeqProcs

----------------------------------------------------------------------------
(* Fixed data: the users, the vendor and its products *)

Users == {"cust", "vend", "vend2", "admin", "scout", "scout2"}

UserRole(u) ==
    CASE u = "vend"  -> "VENDOR"
      [] u = "vend2" -> "VENDOR"
      [] u = "admin" -> "ADMIN"
      [] u = "scout" -> "SCOUT"
      [] u = "scout2" -> "SCOUT"
      [] OTHER       -> "CITIZEN"

\* User.isVerified, which no route writes: scout2 is a scout not yet verified
UserIsVerified(u) == u # "scout2"

\* Every handler addresses one order by its id and touches no other order's rows:
\* the model follows one order.
OrderIds   == {"ord_1"}
VendorIds  == {"vnd_abu"}
ProductIds == {"prd_20l", "prd_50l"}

OrderStatus == {"PENDING", "ACCEPTED", "PAYMENT_PENDING", "PAID", "PREPARING",
                "OUT_FOR_DELIVERY", "DELIVERED", "COMPLETED", "CANCELLED",
                "REFUNDED"}

TransactionStatus == {"PENDING", "PROCESSING", "COMPLETED", "FAILED", "REFUNDED"}
EscrowStatus      == {"NONE", "HELD", "RELEASED", "REFUNDED"}
PaymentProvider   == {"ORANGE_MONEY", "CASH"}

\* The sign-in tables before any code is requested
NoOtp ==
    /\ otpCodes = [ph \in {} |-> 0]
    /\ userPhones = {}
    /\ refreshTokens = {}
    /\ wrongCodes = [ph \in {} |-> 0]
    /\ issuedCodes = [ph \in {} |-> 0]
    /\ storage = [accessToken |-> "NULL", refreshToken |-> "NULL"]
    /\ sent = [requests |-> 0, refreshes |-> 0]

NoReq  == [op |-> "none"]
NoSnap == [op |-> "none"]

----------------------------------------------------------------------------
(* Pure helpers *)

\* Math.round of a non-negative rational n/d
RoundDiv(n, d) == (2 * n + d) \div (2 * d)

Max(a, b) == IF a >= b THEN a ELSE b
Min(a, b) == IF a <= b THEN a ELSE b

feePercentageNum == 5
feePercentageDen == 100
minFee == 500
maxFee == 50000

\* calculatePlatformFee with a slip: Math.floor in place of Math.round
calculatePlatformFeeTruncating(subtotal) ==
    LET calculatedFee == (subtotal * feePercentageNum) \div feePercentageDen
    IN  Max(minFee, Min(maxFee, calculatedFee))

calculatePlatformFee(subtotal) ==
    LET calculatedFee == RoundDiv(subtotal * feePercentageNum, feePercentageDen)
    IN  Max(minFee, Min(maxFee, calculatedFee))

RECURSIVE SumTotalPrice(_)
SumTotalPrice(items) ==
    IF items = <<>> THEN 0
    ELSE Head(items).totalPrice + SumTotalPrice(Tail(items))

\* prisma update: the fields of data overwrite the row's, the others stay
Apply(row, data) ==
    [f \in DOMAIN row |-> IF f \in DOMAIN data THEN data[f] ELSE row[f]]

\* a table with row k set to v
Put(table, k, v) ==
    [x \in DOMAIN table \cup {k} |-> IF x = k THEN v ELSE table[x]]

\* the handler of slot p sends its response
Finish(p, r) ==
    /\ pc' = [pc EXCEPT ![p] = "done"]
    /\ res' = [res EXCEPT ![p] = r]

\* the handler of slot p goes on to its next await
Goto(p, label) ==
    /\ pc' = [pc EXCEPT ![p] = label]
    /\ UNCHANGED res

----------------------------------------------------------------------------
(* Initial state: the seeded vendor with its two products, no orders *)

Init ==
    /\ orders = [o \in {} |-> 0]
    /\ transactions = [o \in {} |-> 0]
    /\ ratings = [o \in {} |-> 0]
    /\ \E active \in BOOLEAN, verified \in BOOLEAN :
         vendors = [v \in VendorIds |->
                      [userId |-> "vend", isActive |-> active,
                       isVerified |-> verified, deliveryFee |-> 5000,
                       minOrder |-> 10000, ratingSum |-> 0, ratingCount |-> 0]]
    /\ \E avail \in BOOLEAN :
         products = [i \in ProductIds |->
                       IF i = "prd_20l"
                       THEN [vendorId |-> "vnd_abu", price |-> 5000, isAvailable |-> TRUE]
                       ELSE [vendorId |-> "vnd_abu", price |-> 10000, isAvailable |-> avail]]
    /\ reputation = [u \in Users |-> 0]
    /\ alerts = [a \in {} |-> 0]
    /\ reports = [r \in {} |-> 0]
    /\ NoOtp
    /\ pc = [p \in AllProcs |-> "idle"]
    /\ req = [p \in AllProcs |-> NoReq]
    /\ snap = [p \in AllProcs |-> NoSnap]
    /\ res = [p \in AllProcs |-> "none"]

----------------------------------------------------------------------------
(* POST /orders *)

VendorIdInputs == VendorIds \cup {"vnd_none"}
Customers == {"cust"}
ItemInputs ==
    { <<[productId |-> "prd_20l", quantity |-> 1]>>,
      <<[productId |-> "prd_20l", quantity |-> 4]>>,
      <<[productId |-> "prd_20l", quantity |-> 1],
        [productId |-> "prd_50l", quantity |-> 1]>>,
      <<[productId |-> "prd_20l", quantity |-> 2],
        [productId |-> "prd_20l", quantity |-> 2]>>,
      <<[productId |-> "prd_none", quantity |-> 1]>> }

\* lines 219-233: the vendor exists, is active and verified
CreateOrderVendorCheck(vendorId) ==
    IF vendorId \notin DOMAIN vendors THEN "VendorNotFound"
    ELSE IF ~vendors[vendorId].isActive \/ ~vendors[vendorId].isVerified
         THEN "VendorUnavailable"
    ELSE "OK"

\* lines 236-242: product.findMany({ id in productIds, vendorId })
FoundProducts(vendorId, items) ==
    { i \in DOMAIN products :
        /\ products[i].vendorId = vendorId
        /\ \E k \in 1..Len(items) : items[k].productId = i }

\* lines 244-252
CreateOrderProductCheck(vendorId, items) ==
    IF Cardinality(FoundProducts(vendorId, items)) # Len(items) THEN "ProductNotFound"
    ELSE IF \E i \in FoundProducts(vendorId, items) : ~products[i].isAvailable
         THEN "ProductUnavailable"
    ELSE "OK"

\* lines 256-266: the line items, unit price read from the product now
OrderItems(items) ==
    [k \in 1..Len(items) |->
        [productId  |-> items[k].productId,
         quantity   |-> items[k].quantity,
         unitPrice  |-> products[items[k].productId].price,
         totalPrice |-> products[items[k].productId].price * items[k].quantity]]

\* NewOrder with a slip: the total leaves the delivery fee out
NewOrderForgettingFee(userId, vendorId, orderItems, deliveryFee) ==
    LET subtotal    == SumTotalPrice(orderItems)
        platformFee == calculatePlatformFee(subtotal)
    IN  [customerId   |-> userId,
         vendorId     |-> vendorId,
         status       |-> "PENDING",
         items        |-> orderItems,
         subtotal     |-> subtotal,
         deliveryFee  |-> deliveryFee,
         platformFee  |-> platformFee,
         totalAmount  |-> subtotal + platformFee,
         acceptedAt   |-> "NULL",
         deliveredAt  |-> "NULL",
         completedAt  |-> "NULL",
         cancelledAt  |-> "NULL",
         cancelReason |-> "NULL"]

\* lines 268-293: the order row that prisma.order.create stores
NewOrder(userId, vendorId, orderItems, deliveryFee) ==
    LET subtotal    == SumTotalPrice(orderItems)
        platformFee == calculatePlatformFee(subtotal)
    IN  [customerId   |-> userId,
         vendorId     |-> vendorId,
         status       |-> "PENDING",
         items        |-> orderItems,
         subtotal     |-> subtotal,
         deliveryFee  |-> deliveryFee,
         platformFee  |-> platformFee,
         totalAmount  |-> subtotal + deliveryFee + platformFee,
         acceptedAt   |-> "NULL",
         deliveredAt  |-> "NULL",
         completedAt  |-> "NULL",
         cancelledAt  |-> "NULL",
         cancelReason |-> "NULL"]

CreateOrderBegin(p) ==
    /\ pc[p] = "idle"
    /\ DOMAIN orders # OrderIds
    /\ \E u \in Customers, v \in VendorIdInputs, items \in ItemInputs :
         /\ req' = [req EXCEPT ![p] = [op |-> "createOrder", userId |-> u,
                                       vendorId |-> v, items |-> items]]
         /\ IF CreateOrderVendorCheck(v) = "OK"
            THEN /\ Goto(p, "co_products")
                 /\ snap' = [snap EXCEPT ![p] =
                               [minOrder    |-> vendors[v].minOrder,
                                deliveryFee |-> vendors[v].deliveryFee]]
            ELSE /\ Finish(p, CreateOrderVendorCheck(v))
                 /\ UNCHANGED snap
    /\ UNCHANGED dbVars

CreateOrderProducts(p) ==
    /\ pc[p] = "co_products"
    /\ LET v     == req[p].vendorId
           items == req[p].items
       IN  IF CreateOrderProductCheck(v, items) # "OK"
           THEN /\ Finish(p, CreateOrderProductCheck(v, items))
                /\ UNCHANGED snap
           ELSE IF SumTotalPrice(OrderItems(items)) < snap[p].minOrder
           THEN /\ Finish(p, "MinimumOrderNotMet")
                /\ UNCHANGED snap
           ELSE /\ Goto(p, "co_create")
                /\ snap' = [snap EXCEPT ![p] =
                              [deliveryFee |-> snap[p].deliveryFee,
                               orderItems  |-> OrderItems(items)]]
    /\ UNCHANGED <<dbVars, req>>

CreateOrderWrite(p) ==
    /\ pc[p] = "co_create"
    /\ DOMAIN orders # OrderIds
    /\ LET id == CHOOSE o \in OrderIds : o \notin DOMAIN orders
       IN  orders' = Put(orders, id,
                         NewOrder(req[p].userId, req[p].vendorId,
                                  snap[p].orderItems, snap[p].deliveryFee))
    /\ Finish(p, "OK")
    /\ UNCHANGED <<authVars, transactions, ratings, vendors, products, reputation, alerts, reports,
                 req, snap>>

----------------------------------------------------------------------------
(* PATCH /orders/:id/status *)

\* updateStatusSchema with COMPLETED among the statuses a vendor may send
updateStatusSchemaWithCompleted ==
    {"ACCEPTED", "PREPARING", "OUT_FOR_DELIVERY", "DELIVERED", "COMPLETED"}

\* lines 24-26
updateStatusSchema == {"ACCEPTED", "PREPARING", "OUT_FOR_DELIVERY", "DELIVERED"}

\* validTransitions with a slip: a PREPARING order may also be marked DELIVERED
validTransitionsSkipping(status) ==
    CASE status = "PENDING"          -> {"ACCEPTED", "CANCELLED"}
      [] status = "ACCEPTED"         -> {"PREPARING", "CANCELLED"}
      [] status = "PAYMENT_PENDING"  -> {"PAID", "CANCELLED"}
      [] status = "PAID"             -> {"PREPARING"}
      [] status = "PREPARING"        -> {"OUT_FOR_DELIVERY", "DELIVERED"}
      [] status = "OUT_FOR_DELIVERY" -> {"DELIVERED"}
      [] status = "DELIVERED"        -> {"COMPLETED"}
      [] OTHER                       -> {}

\* lines 358-369
validTransitions(status) ==
    CASE status = "PENDING"          -> {"ACCEPTED", "CANCELLED"}
      [] status = "ACCEPTED"         -> {"PREPARING", "CANCELLED"}
      [] status = "PAYMENT_PENDING"  -> {"PAID", "CANCELLED"}
      [] status = "PAID"             -> {"PREPARING"}
      [] status = "PREPARING"        -> {"OUT_FOR_DELIVERY"}
      [] status = "OUT_FOR_DELIVERY" -> {"DELIVERED"}
      [] status = "DELIVERED"        -> {"COMPLETED"}
      [] OTHER                       -> {}

\* lines 335-373: the preHandlers (authorize, validate), then the handler's checks
UpdateStatusCheck(u, id, status) ==
    IF UserRole(u) \notin {"VENDOR", "ADMIN"} THEN "Forbidden"
    ELSE IF status \notin updateStatusSchema THEN "ValidationError"
    ELSE IF id \notin DOMAIN orders THEN "NotFound"
    ELSE IF vendors[orders[id].vendorId].userId # u /\ UserRole(u) # "ADMIN"
         THEN "Forbidden"
    ELSE IF status \notin validTransitions(orders[id].status) THEN "InvalidTransition"
    ELSE "OK"

\* updateData with a slip: an accept stores the requested status ACCEPTED
updateDataKeepingAccepted(status) ==
    IF status = "ACCEPTED"
    THEN [status |-> "ACCEPTED", acceptedAt |-> "SET"]
    ELSE IF status = "DELIVERED"
    THEN [status |-> "DELIVERED", deliveredAt |-> "SET"]
    ELSE [status |-> status]

\* lines 375-381
updateData(status) ==
    IF status = "ACCEPTED"
    THEN [status |-> "PAYMENT_PENDING", acceptedAt |-> "SET"]
    ELSE IF status = "DELIVERED"
    THEN [status |-> "DELIVERED", deliveredAt |-> "SET"]
    ELSE [status |-> status]

UpdateStatusBegin(p) ==
    /\ pc[p] = "idle"
    /\ \E u \in Users, id \in OrderIds, status \in OrderStatus :
         /\ req' = [req EXCEPT ![p] = [op |-> "updateStatus", userId |-> u,
                                       id |-> id, status |-> status]]
         /\ IF UpdateStatusCheck(u, id, status) = "OK"
            THEN /\ Goto(p, "us_write")
                 /\ snap' = [snap EXCEPT ![p] = [status |-> orders[id].status]]
            ELSE /\ Finish(p, UpdateStatusCheck(u, id, status))
                 /\ UNCHANGED snap
    /\ UNCHANGED dbVars

UpdateStatusWrite(p) ==
    /\ pc[p] = "us_write"
    /\ orders' = [orders EXCEPT ![req[p].id] = Apply(@, updateData(req[p].status))]
    /\ Finish(p, "OK")
    /\ UNCHANGED <<authVars, transactions, ratings, vendors, products, reputation, alerts, reports,
                 req, snap>>

----------------------------------------------------------------------------
(* POST /orders/:id/confirm-delivery *)

\* ConfirmDeliveryCheck with a slip: the status check is missing
ConfirmDeliveryCheckAnyStatus(u, id) ==
    IF id \notin DOMAIN orders THEN "NotFound"
    ELSE IF orders[id].customerId # u THEN "Forbidden"
    ELSE "OK"

\* lines 414-429
ConfirmDeliveryCheck(u, id) ==
    IF id \notin DOMAIN orders THEN "NotFound"
    ELSE IF orders[id].customerId # u THEN "Forbidden"
    ELSE IF orders[id].status # "DELIVERED" THEN "InvalidTransition"
    ELSE "OK"

ConfirmDeliveryBegin(p) ==
    /\ pc[p] = "idle"
    /\ \E u \in Users, id \in OrderIds :
         /\ req' = [req EXCEPT ![p] = [op |-> "confirmDelivery", userId |-> u, id |-> id]]
         /\ IF ConfirmDeliveryCheck(u, id) = "OK"
            THEN /\ Goto(p, "cd_write")
                 /\ snap' = [snap EXCEPT ![p] =
                               [status |-> orders[id].status,
                                hasTransaction |-> id \in DOMAIN transactions]]
            ELSE /\ Finish(p, ConfirmDeliveryCheck(u, id))
                 /\ UNCHANGED snap
    /\ UNCHANGED dbVars

\* lines 442-448: the transaction update of the batch
ReleaseEscrow(tx) ==
    Apply(tx, [escrowStatus |-> "RELEASED", escrowReleasedAt |-> "SET"])

\* lines 432-451: one prisma.$transaction batch
ConfirmDeliveryWrite(p) ==
    /\ pc[p] = "cd_write"
    /\ orders' = [orders EXCEPT ![req[p].id] =
                    Apply(@, [status |-> "COMPLETED", completedAt |-> "SET"])]
    /\ IF snap[p].hasTransaction
       THEN transactions' = [transactions EXCEPT ![req[p].id] = ReleaseEscrow(@)]
       ELSE UNCHANGED transactions
    /\ Finish(p, "OK")
    /\ UNCHANGED <<authVars, ratings, vendors, products, reputation, alerts, reports,
                 req, snap>>

----------------------------------------------------------------------------
(* POST /orders/:id/cancel *)

\* line 498
cancellableStatuses == {"PENDING", "ACCEPTED", "PAYMENT_PENDING", "PAID", "PREPARING"}

\* lines 480-501
CancelCheck(u, id) ==
    IF id \notin DOMAIN orders THEN "NotFound"
    ELSE IF /\ orders[id].customerId # u
            /\ vendors[orders[id].vendorId].userId # u
            /\ UserRole(u) # "ADMIN"
         THEN "Forbidden"
    ELSE IF orders[id].status \notin cancellableStatuses THEN "InvalidTransition"
    ELSE "OK"

\* the optional reason of the body: "NULL" stands for an absent one
ReasonInputs == {"NULL", "changed my mind"}

CancelBegin(p) ==
    /\ pc[p] = "idle"
    /\ \E u \in Users, id \in OrderIds, reason \in ReasonInputs :
         /\ req' = [req EXCEPT ![p] = [op |-> "cancel", userId |-> u, id |-> id,
                                       reason |-> reason]]
         /\ IF CancelCheck(u, id) = "OK"
            THEN /\ Goto(p, "cn_order")
                 /\ snap' = [snap EXCEPT ![p] =
                               [status |-> orders[id].status,
                                transactionStatus |->
                                    IF id \in DOMAIN transactions
                                    THEN transactions[id].status ELSE "NULL"]]
            ELSE /\ Finish(p, CancelCheck(u, id))
                 /\ UNCHANGED snap
    /\ UNCHANGED dbVars

\* lines 503-510: an absent reason leaves cancelReason as it is
CancelData(reason) ==
    IF reason = "NULL"
    THEN [status |-> "CANCELLED", cancelledAt |-> "SET"]
    ELSE [status |-> "CANCELLED", cancelledAt |-> "SET", cancelReason |-> reason]

\* RefundDue with a slip: a payment that never completed is refunded too
RefundDueAlsoPending(transactionStatus) ==
    transactionStatus \in {"COMPLETED", "PENDING"}

\* line 513
RefundDue(transactionStatus) == transactionStatus = "COMPLETED"

CancelOrderWrite(p) ==
    /\ pc[p] = "cn_order"
    /\ orders' = [orders EXCEPT ![req[p].id] = Apply(@, CancelData(req[p].reason))]
    /\ IF RefundDue(snap[p].transactionStatus)
       THEN Goto(p, "cn_refund")
       ELSE Finish(p, "OK")
    /\ UNCHANGED <<authVars, transactions, ratings, vendors, products, reputation, alerts, reports,
                 req, snap>>

\* lines 514-520
CancelRefundWrite(p) ==
    /\ pc[p] = "cn_refund"
    /\ transactions' = [transactions EXCEPT ![req[p].id] =
                          Apply(@, [escrowStatus |-> "REFUNDED", status |-> "REFUNDED"])]
    /\ Finish(p, "OK")
    /\ UNCHANGED <<authVars, orders, ratings, vendors, products, reputation, alerts, reports,
                 req, snap>>

----------------------------------------------------------------------------
(* POST /orders/:id/rate *)

ratingPoints == 2

ScoreInputs == {1, 5}

\* RateCheck with a slip: an existing rating is not looked for
RateCheckIgnoringRating(u, id) ==
    IF id \notin DOMAIN orders THEN "NotFound"
    ELSE IF orders[id].customerId # u THEN "Forbidden"
    ELSE IF orders[id].status # "COMPLETED" THEN "InvalidTransition"
    ELSE "OK"

\* lines 549-568
RateCheck(u, id) ==
    IF id \notin DOMAIN orders THEN "NotFound"
    ELSE IF orders[id].customerId # u THEN "Forbidden"
    ELSE IF orders[id].status # "COMPLETED" THEN "InvalidTransition"
    ELSE IF id \in DOMAIN ratings THEN "AlreadyRated"
    ELSE "OK"

\* the order ids of the rate requests: the stored orders' and OrderIds
RateIdInputs == OrderIds \cup DOMAIN orders

RateBegin(p) ==
    /\ pc[p] = "idle"
    /\ \E u \in Users, id \in RateIdInputs, score \in ScoreInputs :
         /\ req' = [req EXCEPT ![p] = [op |-> "rate", userId |-> u, id |-> id,
                                       score |-> score]]
         /\ IF RateCheck(u, id) = "OK"
            THEN /\ Goto(p, "rt_create")
                 /\ snap' = [snap EXCEPT ![p] = [vendorId |-> orders[id].vendorId]]
            ELSE /\ Finish(p, RateCheck(u, id))
                 /\ UNCHANGED snap
    /\ UNCHANGED dbVars

\* lines 571-581: Rating.orderId is unique, a second row is refused by the database
RateCreate(p) ==
    /\ pc[p] = "rt_create"
    /\ IF req[p].id \in DOMAIN ratings
       THEN /\ Finish(p, "InternalError")
            /\ UNCHANGED ratings
       ELSE /\ Goto(p, "rt_aggregate")
            /\ ratings' = Put(ratings, req[p].id,
                              [userId |-> req[p].userId,
                               vendorId |-> snap[p].vendorId,
                               score |-> req[p].score])
    /\ UNCHANGED <<authVars, orders, transactions, vendors, products, reputation, alerts, reports,
                 req, snap>>

RECURSIVE SumScores(_)
SumScores(ids) ==
    IF ids = {} THEN 0
    ELSE LET i == CHOOSE x \in ids : TRUE
         IN  ratings[i].score + SumScores(ids \ {i})

\* lines 584-588: rating.aggregate over the vendor's ratings
RateAggregate(p) ==
    /\ pc[p] = "rt_aggregate"
    /\ LET mine == { i \in DOMAIN ratings : ratings[i].vendorId = snap[p].vendorId }
       IN  snap' = [snap EXCEPT ![p] =
                      [vendorId |-> snap[p].vendorId,
                       sum |-> SumScores(mine), count |-> Cardinality(mine)]]
    /\ Goto(p, "rt_vendor")
    /\ UNCHANGED <<dbVars, req>>

\* lines 590-596: the mean is kept as the pair (sum of scores, number of scores)
RateVendorWrite(p) ==
    /\ pc[p] = "rt_vendor"
    /\ vendors' = [vendors EXCEPT ![snap[p].vendorId] =
                     Apply(@, [ratingSum |-> snap[p].sum, ratingCount |-> snap[p].count])]
    /\ Goto(p, "rt_user")
    /\ UNCHANGED <<authVars, orders, transactions, ratings, products, reputation, alerts, reports,
                 req, snap>>

\* lines 599-604
RateUserWrite(p) ==
    /\ pc[p] = "rt_user"
    /\ reputation' = [reputation EXCEPT ![req[p].userId] = @ + ratingPoints]
    /\ Finish(p, "OK")
    /\ UNCHANGED <<authVars, orders, transactions, ratings, vendors, products, alerts, reports,
                 req, snap>>

----------------------------------------------------------------------------
(* POST /payments/initiate *)

\* InitiateCheck with a slip: an existing transaction is not looked for
InitiateCheckIgnoringTransaction(u, orderId) ==
    IF orderId \notin DOMAIN orders THEN "NotFound"
    ELSE IF orders[orderId].customerId # u THEN "Forbidden"
    ELSE IF orders[orderId].status # "PAYMENT_PENDING" THEN "InvalidTransition"
    ELSE "OK"

\* lines 635-654
InitiateCheck(u, orderId) ==
    IF orderId \notin DOMAIN orders THEN "NotFound"
    ELSE IF orders[orderId].customerId # u THEN "Forbidden"
    ELSE IF orders[orderId].status # "PAYMENT_PENDING" THEN "InvalidTransition"
    ELSE IF orderId \in DOMAIN transactions THEN "AlreadyInitiated"
    ELSE "OK"

InitiateBegin(p) ==
    /\ pc[p] = "idle"
    /\ \E u \in Users, orderId \in OrderIds, provider \in PaymentProvider :
         /\ req' = [req EXCEPT ![p] = [op |-> "initiate", userId |-> u,
                                       id |-> orderId, provider |-> provider]]
         /\ IF InitiateCheck(u, orderId) = "OK"
            THEN /\ Goto(p, "pi_create")
                 /\ snap' = [snap EXCEPT ![p] =
                               [totalAmount |-> orders[orderId].totalAmount]]
            ELSE /\ Finish(p, InitiateCheck(u, orderId))
                 /\ UNCHANGED snap
    /\ UNCHANGED dbVars

\* lines 657-665: Transaction.orderId is unique, a second row is refused by the database
InitiateCreate(p) ==
    /\ pc[p] = "pi_create"
    /\ IF req[p].id \in DOMAIN transactions
       THEN /\ Finish(p, "InternalError")
            /\ UNCHANGED transactions
       ELSE /\ Finish(p, "OK")
            /\ transactions' = Put(transactions, req[p].id,
                                   [amount |-> snap[p].totalAmount,
                                    provider |-> req[p].provider,
                                    status |-> "PENDING",
                                    escrowStatus |-> "NONE",
                                    escrowReleasedAt |-> "NULL"])
    /\ UNCHANGED <<authVars, orders, ratings, vendors, products, reputation, alerts, reports,
                 req, snap>>

----------------------------------------------------------------------------
(* POST /payments/webhook/orange *)

WebhookStatusInputs == {"SUCCESS", "FAILED"}

\* WebhookCheck with a slip: the transaction is found whatever its provider
WebhookCheckAnyProvider(order_id) ==
    IF order_id \in DOMAIN transactions THEN "OK" ELSE "TransactionNotFound"

\* lines 755-764: transaction.findFirst by the order's number and the provider
WebhookCheck(order_id) ==
    IF /\ order_id \in DOMAIN transactions
       /\ transactions[order_id].provider = "ORANGE_MONEY"
    THEN "OK" ELSE "TransactionNotFound"

WebhookBegin(p) ==
    /\ pc[p] = "idle"
    /\ \E order_id \in OrderIds, status \in WebhookStatusInputs :
         /\ req' = [req EXCEPT ![p] = [op |-> "webhook", id |-> order_id,
                                       status |-> status]]
         /\ IF WebhookCheck(order_id) = "OK"
            THEN /\ Goto(p, "wh_write")
                 /\ snap' = [snap EXCEPT ![p] = [orderId |-> order_id]]
            ELSE /\ Finish(p, WebhookCheck(order_id))
                 /\ UNCHANGED snap
    /\ UNCHANGED dbVars

\* lines 766-788: on SUCCESS one prisma.$transaction batch, else one update
WebhookWrite(p) ==
    /\ pc[p] = "wh_write"
    /\ IF req[p].status = "SUCCESS"
       THEN /\ transactions' = [transactions EXCEPT ![snap[p].orderId] =
                                  Apply(@, [status |-> "COMPLETED",
                                            escrowStatus |-> "HELD"])]
            /\ orders' = [orders EXCEPT ![snap[p].orderId] =
                            Apply(@, [status |-> "PAID"])]
       ELSE /\ transactions' = [transactions EXCEPT ![snap[p].orderId] =
                                  Apply(@, [status |-> "FAILED"])]
            /\ UNCHANGED orders
    /\ Finish(p, "OK")
    /\ UNCHANGED <<authVars, ratings, vendors, products, reputation, alerts, reports,
                 req, snap>>

----------------------------------------------------------------------------
(* POST /alerts -- alerts.routes.ts 161-244 *)

Zones    == {"zone_kissy"}
AlertIds == {"alt_1"}

alertPoints   == 10
baseConfidence100 == 50
maxBonus100   == 45
maxReputation == 1000

\* calculateConfidence with a slip: the reputation is not capped
calculateConfidenceUncapped(scoutReputation) ==
    RoundDiv(baseConfidence100 * maxReputation + scoutReputation * maxBonus100,
             maxReputation)

\* helpers.ts 143-152, in hundredths
calculateConfidence(scoutReputation) ==
    RoundDiv(baseConfidence100 * maxReputation
                 + Min(scoutReputation, maxReputation) * maxBonus100,
             maxReputation)

ZoneIdInputs == {"zone_kissy", "zone_nowhere"}

\* CreateAlertCheck with a slip: the scout's isVerified is not looked at
CreateAlertCheckTrusting(u, zoneId) ==
    IF UserRole(u) \notin {"SCOUT", "ADMIN"} THEN "Forbidden"
    ELSE IF zoneId \notin Zones THEN "ZoneNotFound"
    ELSE "OK"

\* authorize('SCOUT', 'ADMIN'), then lines 172-185
CreateAlertCheck(u, zoneId) ==
    IF UserRole(u) \notin {"SCOUT", "ADMIN"} THEN "Forbidden"
    ELSE IF zoneId \notin Zones THEN "ZoneNotFound"
    ELSE IF UserRole(u) = "SCOUT" /\ ~UserIsVerified(u) THEN "ScoutNotVerified"
    ELSE "OK"

\* Alert.feedbackScore is a nullable Float: a fraction, or num/den = 0/0 for NULL
NullScore == [num |-> 0, den |-> 0]

\* lines 201-211, with the defaults of the Alert model
NewAlert(userId, zoneId, confidence) ==
    [scoutId |-> userId, zoneId |-> zoneId, status |-> "ACTIVE",
     confidence |-> confidence, isVerified |-> FALSE,
     feedbackScore |-> NullScore, feedbackCount |-> 0]

CreateAlertBegin(p) ==
    /\ pc[p] = "idle"
    /\ \E u \in Users, zoneId \in ZoneIdInputs :
         LET r == CreateAlertCheck(u, zoneId) IN
         /\ req' = [req EXCEPT ![p] = [op |-> "createAlert", userId |-> u,
                                       zoneId |-> zoneId]]
         /\ IF r = "OK"
            THEN /\ \E a \in AlertIds : a \notin DOMAIN alerts
                 /\ Goto(p, "ca_create")
                 /\ snap' = [snap EXCEPT ![p] =
                               [confidence |-> calculateConfidence(reputation[u])]]
            ELSE /\ Finish(p, r)
                 /\ UNCHANGED snap
    /\ UNCHANGED dbVars

\* lines 201-220
CreateAlertWrite(p) ==
    /\ pc[p] = "ca_create"
    /\ LET a == CHOOSE a \in AlertIds : a \notin DOMAIN alerts IN
       /\ alerts' = Put(alerts, a,
                        NewAlert(req[p].userId, req[p].zoneId, snap[p].confidence))
       /\ snap' = [snap EXCEPT ![p] = [confidence |-> snap[p].confidence, id |-> a]]
    /\ Goto(p, "ca_points")
    /\ UNCHANGED <<authVars, orders, transactions, ratings, vendors, products, reputation,
                   reports, req>>

\* lines 223-228
CreateAlertPoints(p) ==
    /\ pc[p] = "ca_points"
    /\ reputation' = [reputation EXCEPT ![req[p].userId] = @ + alertPoints]
    /\ Finish(p, "OK")
    /\ UNCHANGED <<authVars, orders, transactions, ratings, vendors, products, alerts,
                   reports, req, snap>>

----------------------------------------------------------------------------
(* POST /alerts/:id/feedback -- alerts.routes.ts 250-305 *)

MaxFeedback == 5

accuratePoints == 2
verifiedScoreNum == 7
verifiedScoreDen == 10
verifiedMinCount == 3

AlertIdInputs == AlertIds \cup {"alt_none"}

RECURSIVE GCD(_, _)
GCD(a, b) == IF b = 0 THEN a ELSE GCD(b, a % b)

\* n/d in lowest terms
Fraction(n, d) == [num |-> n \div GCD(n, d), den |-> d \div GCD(n, d)]

\* NewScore with a slip: the old mean is not weighted by the old count
NewScoreUnweighted(alert, accurate) ==
    LET currentScore  == IF alert.feedbackScore = NullScore
                         THEN [num |-> 0, den |-> 1] ELSE alert.feedbackScore
        feedbackValue == IF accurate THEN 1 ELSE 0
    IN  Fraction(currentScore.num + feedbackValue * currentScore.den,
                 currentScore.den * (alert.feedbackCount + 1))

\* lines 270-273: the running mean (currentScore * feedbackCount + feedbackValue)
\* / newFeedbackCount, as a fraction
NewScore(alert, accurate) ==
    LET currentScore  == IF alert.feedbackScore = NullScore
                         THEN [num |-> 0, den |-> 1] ELSE alert.feedbackScore
        feedbackValue == IF accurate THEN 1 ELSE 0
    IN  Fraction(currentScore.num * alert.feedbackCount + feedbackValue * currentScore.den,
                 currentScore.den * (alert.feedbackCount + 1))

\* lines 277-281
FeedbackData(alert, accurate) ==
    LET newScore == NewScore(alert, accurate)
        newFeedbackCount == alert.feedbackCount + 1
    IN  [feedbackScore |-> newScore,
         feedbackCount |-> newFeedbackCount,
         isVerified |-> /\ newScore.num * verifiedScoreDen >= verifiedScoreNum * newScore.den
                        /\ newFeedbackCount >= verifiedMinCount]

\* lines 260-267
FeedbackCheck(id) == IF id \notin DOMAIN alerts THEN "AlertNotFound" ELSE "OK"

FeedbackBegin(p) ==
    /\ pc[p] = "idle"
    /\ \E u \in Users, id \in AlertIdInputs, accurate \in BOOLEAN :
         LET r == FeedbackCheck(id) IN
         /\ req' = [req EXCEPT ![p] = [op |-> "feedback", userId |-> u, id |-> id,
                                       accurate |-> accurate]]
         /\ IF r = "OK"
            THEN /\ alerts[id].feedbackCount < MaxFeedback
                 /\ Goto(p, "fb_alert")
                 /\ snap' = [snap EXCEPT ![p] = alerts[id]]
            ELSE /\ Finish(p, r)
                 /\ UNCHANGED snap
    /\ UNCHANGED dbVars

\* lines 275-282
FeedbackAlertWrite(p) ==
    /\ pc[p] = "fb_alert"
    /\ alerts' = [alerts EXCEPT ![req[p].id] =
                    Apply(@, FeedbackData(snap[p], req[p].accurate))]
    /\ IF req[p].accurate THEN Goto(p, "fb_scout") ELSE Finish(p, "OK")
    /\ UNCHANGED <<authVars, orders, transactions, ratings, vendors, products, reputation,
                   reports, req, snap>>

\* lines 285-292
FeedbackScoutWrite(p) ==
    /\ pc[p] = "fb_scout"
    /\ reputation' = [reputation EXCEPT ![snap[p].scoutId] = @ + accuratePoints]
    /\ Finish(p, "OK")
    /\ UNCHANGED <<authVars, orders, transactions, ratings, vendors, products, alerts,
                   reports, req, snap>>

----------------------------------------------------------------------------
(* PATCH /alerts/:id/cancel -- alerts.routes.ts 311-346 *)

\* lines 322-331
CancelAlertCheck(u, id) ==
    IF id \notin DOMAIN alerts THEN "AlertNotFound"
    ELSE IF alerts[id].scoutId # u /\ UserRole(u) # "ADMIN" THEN "Forbidden"
    ELSE "OK"

\* CancelAlertBegin with a slip: the alert is cancelled before the ownership check
CancelAlertBeginWritingFirst(p) ==
    /\ pc[p] = "idle"
    /\ \E u \in Users, id \in AlertIdInputs :
         LET r == CancelAlertCheck(u, id) IN
         /\ req' = [req EXCEPT ![p] = [op |-> "cancelAlert", userId |-> u, id |-> id]]
         /\ IF r = "OK" THEN Goto(p, "al_cancel") ELSE Finish(p, r)
         /\ IF r = "Forbidden"
            THEN alerts' = [alerts EXCEPT ![id] = Apply(@, [status |-> "CANCELLED"])]
            ELSE UNCHANGED alerts
    /\ UNCHANGED <<authVars, orders, transactions, ratings, vendors, products, reputation,
                   reports, snap>>

CancelAlertBegin(p) ==
    /\ pc[p] = "idle"
    /\ \E u \in Users, id \in AlertIdInputs :
         LET r == CancelAlertCheck(u, id) IN
         /\ req' = [req EXCEPT ![p] = [op |-> "cancelAlert", userId |-> u, id |-> id]]
         /\ IF r = "OK" THEN Goto(p, "al_cancel") ELSE Finish(p, r)
    /\ UNCHANGED <<dbVars, snap>>

\* lines 333-336
CancelAlertWrite(p) ==
    /\ pc[p] = "al_cancel"
    /\ alerts' = [alerts EXCEPT ![req[p].id] = Apply(@, [status |-> "CANCELLED"])]
    /\ Finish(p, "OK")
    /\ UNCHANGED <<authVars, orders, transactions, ratings, vendors, products, reputation,
                   reports, req, snap>>

----------------------------------------------------------------------------
(* POST /reports -- reports.routes.ts 38-140 *)

MaxReports == 3

ReportIds == 1..MaxReports

ReportStatus == {"PENDING", "VERIFIED", "FORWARDED", "IN_PROGRESS", "RESOLVED", "REJECTED"}

\* the request's type and location: points on one meridian, in metres from the first
ReportTypeInputs == {"LEAK", "BURST_PIPE", "CONTAMINATION", "BLOCKED_DRAIN", "FLOOD",
                     "BROKEN_TAP", "OTHER"}
LocationInputs   == {0, 150}
Reporters        == {"cust", "vend", "scout"}

duplicateRadius == 100
reportPoints    == 5
autoVerifyNearby == 2

\* helpers.ts 66-82: the haversine distance, which between two points of one
\* meridian is the length of the arc between them
calculateDistance(point1, point2) ==
    IF point1 >= point2 THEN point1 - point2 ELSE point2 - point1

\* String.prototype.toLowerCase on the report types
toLowerCase(type) ==
    CASE type = "LEAK"          -> "leak"
      [] type = "BURST_PIPE"    -> "burst_pipe"
      [] type = "CONTAMINATION" -> "contamination"
      [] type = "BLOCKED_DRAIN" -> "blocked_drain"
      [] type = "FLOOD"         -> "flood"
      [] type = "BROKEN_TAP"    -> "broken_tap"
      [] OTHER                  -> "other"

\* config.bounty, part_006 324-333
bounty ==
    [leak |-> 20000, burstPipe |-> 30000, contamination |-> 25000,
     blockedDrain |-> 15000, flood |-> 20000, brokenTap |-> 10000, other |-> 5000]

\* line 81: config.bounty[type.toLowerCase()] || config.bounty.other
bountyAmount(type) ==
    IF toLowerCase(type) \in DOMAIN bounty THEN bounty[toLowerCase(type)]
    ELSE bounty.other

\* lines 50-56: the stored reports of the type that are still open (all stored
\* reports are less than a day old)
recentReports(type) ==
    { r \in DOMAIN reports :
        /\ reports[r].type = type
        /\ reports[r].status \in {"PENDING", "VERIFIED", "FORWARDED", "IN_PROGRESS"} }

\* lines 62-71: the recent reports within the radius
NearbyReports(type, location) ==
    { r \in recentReports(type) :
        calculateDistance(location, reports[r].location) < duplicateRadius }

\* isDuplicate with a slip: any nearby report counts, whoever sent it
isDuplicateAnyReporter(u, type, location) ==
    NearbyReports(type, location) # {}

isDuplicate(u, type, location) ==
    \E r \in NearbyReports(type, location) : reports[r].userId = u

\* lines 84-95, with the defaults of the Report model
NewReport(userId, type, location, nearbyReportCount) ==
    [userId |-> userId, type |-> type, location |-> location,
     status |-> "PENDING", verifiedCount |-> nearbyReportCount + 1,
     bountyAmount |-> bountyAmount(type), bountyPaid |-> FALSE,
     resolvedAt |-> "NULL", resolvedBy |-> "NULL", resolution |-> "NULL"]

\* the ids of a set, in ascending order
RECURSIVE SortedIds(_)
SortedIds(ids) ==
    IF ids = {} THEN <<>>
    ELSE LET m == CHOOSE x \in ids : \A y \in ids : x <= y
         IN  <<m>> \o SortedIds(ids \ {m})

CreateReportBegin(p) ==
    /\ pc[p] = "idle"
    /\ \E u \in Reporters, type \in ReportTypeInputs, location \in LocationInputs :
         /\ req' = [req EXCEPT ![p] = [op |-> "createReport", userId |-> u,
                                       type |-> type, location |-> location]]
         /\ IF isDuplicate(u, type, location)
            THEN /\ Finish(p, "DuplicateReport")
                 /\ UNCHANGED snap
            ELSE /\ Cardinality(DOMAIN reports) < MaxReports
                 /\ Goto(p, "rc_create")
                 /\ snap' = [snap EXCEPT ![p] =
                      [nearbyReportCount |-> Cardinality(NearbyReports(type, location)),
                       nearbyPending |->
                           SortedIds({ r \in NearbyReports(type, location) :
                                          reports[r].status = "PENDING" })]]
    /\ UNCHANGED dbVars

\* lines 84-95
CreateReportWrite(p) ==
    /\ pc[p] = "rc_create"
    /\ LET id == Cardinality(DOMAIN reports) + 1 IN
       /\ reports' = Put(reports, id,
                         NewReport(req[p].userId, req[p].type, req[p].location,
                                   snap[p].nearbyReportCount))
       /\ snap' = [snap EXCEPT ![p] =
                     [nearbyReportCount |-> snap[p].nearbyReportCount,
                      nearbyPending |-> snap[p].nearbyPending, id |-> id]]
    /\ Goto(p, IF snap[p].nearbyReportCount >= autoVerifyNearby
               THEN "rc_verify" ELSE "rc_points")
    /\ UNCHANGED <<authVars, orders, transactions, ratings, vendors, products, reputation,
                   alerts, req>>

\* lines 99-102
CreateReportVerifySelf(p) ==
    /\ pc[p] = "rc_verify"
    /\ reports' = [reports EXCEPT ![snap[p].id] = Apply(@, [status |-> "VERIFIED"])]
    /\ Goto(p, IF snap[p].nearbyPending = <<>> THEN "rc_points" ELSE "rc_nearby")
    /\ UNCHANGED <<authVars, orders, transactions, ratings, vendors, products, reputation,
                   alerts, req, snap>>

\* CreateReportVerifyNearby with a slip: the nearby report's verifiedCount stays
CreateReportVerifyNearbyKeepingCount(p) ==
    /\ pc[p] = "rc_nearby"
    /\ reports' = [reports EXCEPT ![Head(snap[p].nearbyPending)] =
                     Apply(@, [status |-> "VERIFIED"])]
    /\ snap' = [snap EXCEPT ![p] =
                  [nearbyReportCount |-> snap[p].nearbyReportCount,
                   nearbyPending |-> Tail(snap[p].nearbyPending), id |-> snap[p].id]]
    /\ Goto(p, IF Tail(snap[p].nearbyPending) = <<>> THEN "rc_points" ELSE "rc_nearby")
    /\ UNCHANGED <<authVars, orders, transactions, ratings, vendors, products, reputation,
                   alerts, req>>

\* lines 105-117: one update per nearby report that was read as PENDING
CreateReportVerifyNearby(p) ==
    /\ pc[p] = "rc_nearby"
    /\ reports' = [reports EXCEPT ![Head(snap[p].nearbyPending)] =
                     Apply(@, [status |-> "VERIFIED",
                               verifiedCount |-> snap[p].nearbyReportCount + 1])]
    /\ snap' = [snap EXCEPT ![p] =
                  [nearbyReportCount |-> snap[p].nearbyReportCount,
                   nearbyPending |-> Tail(snap[p].nearbyPending), id |-> snap[p].id]]
    /\ Goto(p, IF Tail(snap[p].nearbyPending) = <<>> THEN "rc_points" ELSE "rc_nearby")
    /\ UNCHANGED <<authVars, orders, transactions, ratings, vendors, products, reputation,
                   alerts, req>>

\* lines 121-126
CreateReportPoints(p) ==
    /\ pc[p] = "rc_points"
    /\ reputation' = [reputation EXCEPT ![req[p].userId] = @ + reportPoints]
    /\ Finish(p, "OK")
    /\ UNCHANGED <<authVars, orders, transactions, ratings, vendors, products, alerts,
                   reports, req, snap>>

----------------------------------------------------------------------------
(* PATCH /reports/:id/status -- reports.routes.ts 313-371 *)

verifiedReportBonus == 15

\* lines 28-31
updateReportStatusSchema == ReportStatus

\* the ids a status update names: the first report's, and one no report has
ReportIdInputs == {1, 0}

\* authorize('ADMIN'), then lines 324-328
ReportStatusCheck(u, id) ==
    IF UserRole(u) # "ADMIN" THEN "Forbidden"
    ELSE IF id \notin DOMAIN reports THEN "ReportNotFound"
    ELSE "OK"

\* line 340
BountyDue(report) == ~report.bountyPaid /\ report.bountyAmount # 0

\* the resolution of the request body, "undefined" when it has none
ResolutionInputs == {"undefined", "pipe replaced", "valve closed"}

\* lines 335-337: a resolution that is undefined is a field prisma leaves alone
ResolvedData(adminId, resolution) ==
    IF resolution = "undefined"
    THEN [resolvedAt |-> "SET", resolvedBy |-> adminId]
    ELSE [resolvedAt |-> "SET", resolvedBy |-> adminId, resolution |-> resolution]

\* lines 330-343
ReportUpdateData(report, status, adminId, resolution) ==
    IF status # "RESOLVED" THEN [status |-> status]
    ELSE IF BountyDue(report)
    THEN [status |-> status, bountyPaid |-> TRUE] @@ ResolvedData(adminId, resolution)
    ELSE [status |-> status] @@ ResolvedData(adminId, resolution)

ReportStatusBegin(p) ==
    /\ pc[p] = "idle"
    /\ \E u \in {"admin", "cust"}, id \in ReportIdInputs,
          status \in updateReportStatusSchema, resolution \in ResolutionInputs :
         LET r == ReportStatusCheck(u, id) IN
         /\ req' = [req EXCEPT ![p] = [op |-> "reportStatus", userId |-> u, id |-> id,
                                       status |-> status, resolution |-> resolution]]
         /\ IF r = "OK"
            THEN /\ Goto(p, IF status = "RESOLVED" /\ BountyDue(reports[id])
                            THEN "rs_bonus" ELSE "rs_update")
                 /\ snap' = [snap EXCEPT ![p] = reports[id]]
            ELSE /\ Finish(p, r)
                 /\ UNCHANGED snap
    /\ UNCHANGED dbVars

\* lines 345-350
ReportStatusBonus(p) ==
    /\ pc[p] = "rs_bonus"
    /\ reputation' = [reputation EXCEPT ![snap[p].userId] = @ + verifiedReportBonus]
    /\ Goto(p, "rs_update")
    /\ UNCHANGED <<authVars, orders, transactions, ratings, vendors, products, alerts,
                   reports, req, snap>>

\* lines 356-359
ReportStatusWrite(p) ==
    /\ pc[p] = "rs_update"
    /\ reports' = [reports EXCEPT ![req[p].id] =
                     Apply(@, ReportUpdateData(snap[p], req[p].status, req[p].userId,
                                               req[p].resolution))]
    /\ Finish(p, "OK")
    /\ UNCHANGED <<authVars, orders, transactions, ratings, vendors, products, reputation,
                   alerts, req, snap>>

----------------------------------------------------------------------------
(* The vendor's catalogue -- vendors.routes.ts 321-357, 406-488 *)

\* the users who ask for a change of the catalogue
CatalogUsers == {"vend", "vend2", "cust", "admin"}

\* lines 324, 333-342; 409, 418-426; 458, 466-474:
\* authorize('VENDOR', 'ADMIN'), the vendor exists and is the user's, or the user
\* is an admin
VendorOwnerCheck(u, vendorId) ==
    IF UserRole(u) \notin {"VENDOR", "ADMIN"} THEN "Forbidden"
    ELSE IF vendorId \notin DOMAIN vendors THEN "VendorNotFound"
    ELSE IF vendors[vendorId].userId # u /\ UserRole(u) # "ADMIN" THEN "Forbidden"
    ELSE "OK"

\* PATCH /vendors/:id -- the body, a part of createVendorSchema
VendorDataInputs == { [deliveryFee |-> 7000] }

UpdateVendorBegin(p) ==
    /\ pc[p] = "idle"
    /\ \E u \in CatalogUsers, id \in VendorIdInputs, data \in VendorDataInputs :
         LET r == VendorOwnerCheck(u, id) IN
         /\ req' = [req EXCEPT ![p] = [op |-> "updateVendor", userId |-> u,
                                       vendorId |-> id, data |-> data]]
         /\ IF r = "OK" THEN Goto(p, "vu_update") ELSE Finish(p, r)
    /\ UNCHANGED <<dbVars, snap>>

\* lines 344-347
UpdateVendorWrite(p) ==
    /\ pc[p] = "vu_update"
    /\ vendors' = [vendors EXCEPT ![req[p].vendorId] = Apply(@, req[p].data)]
    /\ Finish(p, "OK")
    /\ UNCHANGED <<authVars, orders, transactions, ratings, products, reputation, alerts,
                   reports, req, snap>>

\* PATCH /vendors/:vendorId/products/:productId -- the body, a part of
\* createProductSchema
ProductIdInputs   == ProductIds \cup {"prd_none"}
ProductDataInputs == { [price |-> 6000] }

\* lines 418-434
UpdateProductCheck(u, vendorId, productId) ==
    IF VendorOwnerCheck(u, vendorId) # "OK" THEN VendorOwnerCheck(u, vendorId)
    ELSE IF productId \notin DOMAIN products
            \/ products[productId].vendorId # vendorId
         THEN "ProductNotFound"
    ELSE "OK"

UpdateProductBegin(p) ==
    /\ pc[p] = "idle"
    /\ \E u \in CatalogUsers, v \in VendorIdInputs, i \in ProductIdInputs,
          data \in ProductDataInputs :
         LET r == UpdateProductCheck(u, v, i) IN
         /\ req' = [req EXCEPT ![p] = [op |-> "updateProduct", userId |-> u,
                                       vendorId |-> v, productId |-> i,
                                       data |-> data]]
         /\ IF r = "OK" THEN Goto(p, "pu_update") ELSE Finish(p, r)
    /\ UNCHANGED <<dbVars, snap>>

\* lines 436-439
UpdateProductWrite(p) ==
    /\ pc[p] = "pu_update"
    /\ products' = [products EXCEPT ![req[p].productId] = Apply(@, req[p].data)]
    /\ Finish(p, "OK")
    /\ UNCHANGED <<authVars, orders, transactions, ratings, vendors, reputation, alerts,
                   reports, req, snap>>

\* DELETE /vendors/:vendorId/products/:productId -- lines 455-474
DeleteProductBegin(p) ==
    /\ pc[p] = "idle"
    /\ \E u \in CatalogUsers, v \in VendorIdInputs, i \in ProductIdInputs :
         LET r == VendorOwnerCheck(u, v) IN
         /\ req' = [req EXCEPT ![p] = [op |-> "deleteProduct", userId |-> u,
                                       vendorId |-> v, productId |-> i]]
         /\ IF r = "OK" THEN Goto(p, "pd_delete") ELSE Finish(p, r)
    /\ UNCHANGED <<dbVars, snap>>

\* OrderItem.product is a required relation with no onDelete (schema 723-724):
\* the database restricts the deletion of a product that an order line names
OrderedProducts ==
    { i \in ProductIdInputs :
        \E o \in DOMAIN orders :
            \E k \in 1..Len(orders[o].items) : orders[o].items[k].productId = i }

\* the DELETE with a slip: the order lines of the product go with it
DeleteProductCascading(p) ==
    /\ pc[p] = "pd_delete"
    /\ IF req[p].productId \notin DOMAIN products
       THEN /\ Finish(p, "InternalError")
            /\ UNCHANGED <<orders, products>>
       ELSE /\ products' = [i \in DOMAIN products \ {req[p].productId} |-> products[i]]
            /\ orders' = [o \in DOMAIN orders |->
                            [orders[o] EXCEPT !.items =
                               SelectSeq(@, LAMBDA l : l.productId # req[p].productId)]]
            /\ Finish(p, "OK")
    /\ UNCHANGED <<authVars, transactions, ratings, vendors, reputation, alerts, reports,
                   req, snap>>

\* lines 476-478: prisma.product.delete throws when the row is missing or when
\* the database refuses the deletion
DeleteProductWrite(p) ==
    /\ pc[p] = "pd_delete"
    /\ IF req[p].productId \notin DOMAIN products
          \/ req[p].productId \in OrderedProducts
       THEN /\ Finish(p, "InternalError")
            /\ UNCHANGED products
       ELSE /\ products' = [i \in DOMAIN products \ {req[p].productId} |-> products[i]]
            /\ Finish(p, "OK")
    /\ UNCHANGED <<authVars, orders, transactions, ratings, vendors, reputation, alerts,
                   reports, req, snap>>

----------------------------------------------------------------------------
(* The response is out: the slot takes the next request *)

Return(p) ==
    /\ pc[p] = "done"
    /\ pc' = [pc EXCEPT ![p] = "idle"]
    /\ req' = [req EXCEPT ![p] = NoReq]
    /\ snap' = [snap EXCEPT ![p] = NoSnap]
    /\ res' = [res EXCEPT ![p] = "none"]
    /\ UNCHANGED dbVars

----------------------------------------------------------------------------
(* Specifications *)

Step(p) ==
    \/ CreateOrderBegin(p) \/ CreateOrderProducts(p) \/ CreateOrderWrite(p)
    \/ UpdateStatusBegin(p) \/ UpdateStatusWrite(p)
    \/ ConfirmDeliveryBegin(p) \/ ConfirmDeliveryWrite(p)
    \/ CancelBegin(p) \/ CancelOrderWrite(p) \/ CancelRefundWrite(p)
    \/ RateBegin(p) \/ RateCreate(p) \/ RateAggregate(p)
    \/ RateVendorWrite(p) \/ RateUserWrite(p)
    \/ InitiateBegin(p) \/ InitiateCreate(p)
    \/ WebhookBegin(p) \/ WebhookWrite(p)
    \/ Return(p)

\* one request at a time: every handler runs to its response before the next starts
Next == \E p \in SeqProcs : Step(p)

Spec == Init /\ [][Next]_vars

\* The requests SpecConc interleaves: those a handler accepts, made by the customer
\* or the vendor.  A request that is rejected is rejected in its first step and
\* writes nothing, so it adds no interleaving of writes.
ConcScope(p) ==
    /\ res[p] \in {"none", "OK", "InternalError"}
    /\ req[p].op \in {"updateStatus", "confirmDelivery", "cancel", "rate",
                      "initiate", "createOrder"}
          => req[p].userId \in {"cust", "vend"}
    /\ req[p].op = "cancel" => req[p].reason = "NULL"
    /\ req[p].op = "rate" => req[p].score = 5
    /\ req[p].op = "initiate" => req[p].provider = "ORANGE_MONEY"

\* handlers of up to MaxInFlight requests interleave at their awaits
InScope(A(_), p) == A(p) /\ ConcScope(p)'

NextConc ==
    \E p \in ConcProcs :
        \/ InScope(CreateOrderBegin, p) \/ InScope(CreateOrderProducts, p)
        \/ InScope(CreateOrderWrite, p)
        \/ InScope(UpdateStatusBegin, p) \/ InScope(UpdateStatusWrite, p)
        \/ InScope(ConfirmDeliveryBegin, p) \/ InScope(ConfirmDeliveryWrite, p)
        \/ InScope(CancelBegin, p) \/ InScope(CancelOrderWrite, p)
        \/ InScope(CancelRefundWrite, p)
        \/ InScope(RateBegin, p) \/ InScope(RateCreate, p) \/ InScope(RateAggregate, p)
        \/ InScope(RateVendorWrite, p) \/ InScope(RateUserWrite, p)
        \/ InScope(InitiateBegin, p) \/ InScope(InitiateCreate, p)
        \/ InScope(WebhookBegin, p) \/ InScope(WebhookWrite, p)
        \/ InScope(Return, p)

SpecConc == Init /\ [][NextConc]_vars

\* The three route files side by side.  Orders and payments keep the tables orders,
\* transactions and ratings, alerts keep alerts, reports keep reports; no handler
\* of one reads or writes a table of another, and User.reputation, which all three
\* increment, is read by POST /alerts alone.  A behaviour of SpecAll stores rows
\* for the routes of one file; the requests it makes of the other two find their
\* tables empty.
\* the report requests of SpecAll: leaks, resolved without a resolution text
LeakScope(p) ==
    /\ req[p].op = "createReport" => req[p].type = "LEAK"
    /\ req[p].op = "reportStatus" => req[p].resolution = "undefined"

OrdersStored  == DOMAIN orders # {}
AlertsStored  == DOMAIN alerts # {}
ReportsStored == DOMAIN reports # {}

OfOrders(A(_), p)  == ~AlertsStored /\ ~ReportsStored /\ A(p)
OfAlerts(A(_), p)  == ~OrdersStored /\ ~ReportsStored /\ A(p)
OfReports(A(_), p) == ~OrdersStored /\ ~AlertsStored /\ A(p) /\ LeakScope(p)'

NextAll ==
    \E p \in SeqProcs :
        \/ OfOrders(CreateOrderBegin, p) \/ OfOrders(CreateOrderProducts, p)
        \/ OfOrders(CreateOrderWrite, p)
        \/ OfOrders(UpdateStatusBegin, p) \/ OfOrders(UpdateStatusWrite, p)
        \/ OfOrders(ConfirmDeliveryBegin, p) \/ OfOrders(ConfirmDeliveryWrite, p)
        \/ OfOrders(CancelBegin, p) \/ OfOrders(CancelOrderWrite, p)
        \/ OfOrders(CancelRefundWrite, p)
        \/ OfOrders(RateBegin, p) \/ OfOrders(RateCreate, p)
        \/ OfOrders(RateAggregate, p)
        \/ OfOrders(RateVendorWrite, p) \/ OfOrders(RateUserWrite, p)
        \/ OfOrders(InitiateBegin, p) \/ OfOrders(InitiateCreate, p)
        \/ OfOrders(WebhookBegin, p) \/ OfOrders(WebhookWrite, p)
        \/ OfAlerts(CreateAlertBegin, p) \/ OfAlerts(CreateAlertWrite, p)
        \/ OfAlerts(CreateAlertPoints, p)
        \/ OfAlerts(FeedbackBegin, p) \/ OfAlerts(FeedbackAlertWrite, p)
        \/ OfAlerts(FeedbackScoutWrite, p)
        \/ OfAlerts(CancelAlertBegin, p) \/ OfAlerts(CancelAlertWrite, p)
        \/ OfReports(CreateReportBegin, p) \/ OfReports(CreateReportWrite, p)
        \/ OfReports(CreateReportVerifySelf, p)
        \/ OfReports(CreateReportVerifyNearby, p)
        \/ OfReports(CreateReportPoints, p)
        \/ OfReports(ReportStatusBegin, p) \/ OfReports(ReportStatusBonus, p)
        \/ OfReports(ReportStatusWrite, p)
        \/ Return(p)

SpecAll == Init /\ [][NextAll]_vars

\* calculatePlatformFee on its own: helpers.ts 107-115 called with a subtotal and
\* the default parameters.  The subtotals are every SubtotalStep-th integer up to
\* MaxSubtotal, past the subtotal at which the fee reaches maxFee; the step is odd,
\* so the subtotals run through every remainder modulo 20.
MaxSubtotal  == 1050000
SubtotalStep == 7
SubtotalInputs == { k * SubtotalStep : k \in 0..(MaxSubtotal \div SubtotalStep) }

InitFee ==
    /\ orders = [o \in {} |-> 0]
    /\ transactions = [o \in {} |-> 0]
    /\ ratings = [o \in {} |-> 0]
    /\ vendors = [v \in {} |-> 0]
    /\ products = [i \in {} |-> 0]
    /\ reputation = [u \in Users |-> 0]
    /\ alerts = [a \in {} |-> 0]
    /\ reports = [r \in {} |-> 0]
    /\ NoOtp
    /\ \E subtotal \in SubtotalInputs :
         req = [p \in AllProcs |->
                  IF p \in SeqProcs
                  THEN [op |-> "calculatePlatformFee", subtotal |-> subtotal]
                  ELSE NoReq]
    /\ pc = [p \in AllProcs |-> IF p \in SeqProcs THEN "fee_call" ELSE "idle"]
    /\ snap = [p \in AllProcs |-> NoSnap]
    /\ res = [p \in AllProcs |-> 0]

\* the call returns
PlatformFeeCall(p) ==
    /\ pc[p] = "fee_call"
    /\ pc' = [pc EXCEPT ![p] = "done"]
    /\ res' = [res EXCEPT ![p] = calculatePlatformFee(req[p].subtotal)]
    /\ UNCHANGED <<dbVars, req, snap>>

NextFee == \E p \in SeqProcs : PlatformFeeCall(p)

SpecFee == InitFee /\ [][NextFee]_vars

\* calculateConfidence on its own: helpers.ts 143-152 called with every
\* reputation up to MaxReputationInput, past the cap maxReputation.
MaxReputationInput == 1200
ReputationInputs == 0..MaxReputationInput

InitConfidence ==
    /\ orders = [o \in {} |-> 0]
    /\ transactions = [o \in {} |-> 0]
    /\ ratings = [o \in {} |-> 0]
    /\ vendors = [v \in {} |-> 0]
    /\ products = [i \in {} |-> 0]
    /\ reputation = [u \in Users |-> 0]
    /\ alerts = [a \in {} |-> 0]
    /\ reports = [r \in {} |-> 0]
    /\ NoOtp
    /\ \E scoutReputation \in ReputationInputs :
         req = [p \in AllProcs |->
                  IF p \in SeqProcs
                  THEN [op |-> "calculateConfidence", scoutReputation |-> scoutReputation]
                  ELSE NoReq]
    /\ pc = [p \in AllProcs |-> IF p \in SeqProcs THEN "confidence_call" ELSE "idle"]
    /\ snap = [p \in AllProcs |-> NoSnap]
    /\ res = [p \in AllProcs |-> 0]

\* the call returns, in hundredths
ConfidenceCall(p) ==
    /\ pc[p] = "confidence_call"
    /\ pc' = [pc EXCEPT ![p] = "done"]
    /\ res' = [res EXCEPT ![p] = calculateConfidence(req[p].scoutReputation)]
    /\ UNCHANGED <<dbVars, req, snap>>

NextConfidence == \E p \in SeqProcs : ConfidenceCall(p)

SpecConfidence == InitConfidence /\ [][NextConfidence]_vars

\* The order and payment routes with the routes that change the vendor's
\* catalogue, one request at a time, from the seed with the vendor active and
\* verified and both products on offer.
InitCatalog ==
    /\ Init
    /\ \A v \in DOMAIN vendors : vendors[v].isActive /\ vendors[v].isVerified
    /\ \A i \in DOMAIN products : products[i].isAvailable

NextCatalog ==
    \E p \in SeqProcs :
        \/ Step(p)
        \/ UpdateVendorBegin(p) \/ UpdateVendorWrite(p)
        \/ UpdateProductBegin(p) \/ UpdateProductWrite(p)
        \/ DeleteProductBegin(p) \/ DeleteProductWrite(p)

SpecCatalog == InitCatalog /\ [][NextCatalog]_vars

\* Feedback requests in flight together.  The handlers of up to MaxInFlight
\* requests interleave at their awaits, in rounds: requests arrive while no
\* response is out, and the slots are freed once every request that arrived has
\* been answered, so that the requests in the slots are all the requests since
\* the earliest read among them.  The alert is created by a verified scout or an
\* admin, the feedback is a citizen's.
FeedbackScope(p) ==
    /\ req[p].op \in {"createAlert", "feedback"} => res[p] \in {"none", "OK"}
    /\ req[p].op = "feedback" => req[p].userId = "cust"

NoneAnswered == \A q \in ConcProcs : pc[q] # "done"
AllAnswered  == \A q \in ConcProcs : pc[q] \in {"idle", "done"}
\* one alert is created at a time: AlertIds holds the ids the creations draw on
NoneCreating == \A q \in ConcProcs : pc[q] \notin {"ca_create", "ca_points"}

NextFeedbackConc ==
    \E p \in ConcProcs :
        \/ NoneAnswered /\ NoneCreating /\ CreateAlertBegin(p) /\ FeedbackScope(p)'
        \/ CreateAlertWrite(p)
        \/ CreateAlertPoints(p)
        \/ NoneAnswered /\ FeedbackBegin(p) /\ FeedbackScope(p)'
        \/ FeedbackAlertWrite(p)
        \/ FeedbackScoutWrite(p)
        \/ AllAnswered /\ Return(p)

SpecFeedbackConc == Init /\ [][NextFeedbackConc]_vars

\* The alert routes on their own, one request at a time.  AlertStatus (schema
\* 829-834) has EXPIRED and VERIFIED, which no route writes: the alert's
\* expiresAt is for an external scheduler to act on, and that scheduler is the
\* step SchedulerSetsStatus, taken between requests on an alert still ACTIVE.
AlertStatus == {"ACTIVE", "EXPIRED", "CANCELLED", "VERIFIED"}

SchedulerSetsStatus ==
    /\ \A p \in AllProcs : pc[p] = "idle"
    /\ \E a \in DOMAIN alerts, s \in {"EXPIRED", "VERIFIED"} :
         /\ alerts[a].status = "ACTIVE"
         /\ alerts' = [alerts EXCEPT ![a] = Apply(@, [status |-> s])]
    /\ UNCHANGED <<authVars, orders, transactions, ratings, vendors, products, reputation,
                   reports, reqVars>>

NextAlerts ==
    \/ \E p \in SeqProcs :
          \/ CreateAlertBegin(p) \/ CreateAlertWrite(p) \/ CreateAlertPoints(p)
          \/ FeedbackBegin(p) \/ FeedbackAlertWrite(p) \/ FeedbackScoutWrite(p)
          \/ CancelAlertBegin(p) \/ CancelAlertWrite(p)
          \/ Return(p)
    \/ SchedulerSetsStatus

SpecAlerts == Init /\ [][NextAlerts]_vars

\* The report routes on their own, one request at a time, all reports sent from
\* one place: leaks by every reporter, the other types by one.
OnePlaceScope(p) ==
    req[p].op = "createReport"
       => /\ req[p].location = 0
          /\ req[p].type = "LEAK" \/ req[p].userId = "cust"

NextReports ==
    \E p \in SeqProcs :
        \/ CreateReportBegin(p) /\ OnePlaceScope(p)'
        \/ CreateReportWrite(p) \/ CreateReportVerifySelf(p)
        \/ CreateReportVerifyNearby(p) \/ CreateReportPoints(p)
        \/ ReportStatusBegin(p) \/ ReportStatusBonus(p) \/ ReportStatusWrite(p)
        \/ Return(p)

SpecReports == InitCatalog /\ [][NextReports]_vars

\* Status updates of one report in flight together: a citizen's leak report is
\* stored and its points awarded, and the handlers of up to MaxInFlight admin
\* requests on it interleave at their awaits.
InitReported ==
    /\ orders = [o \in {} |-> 0]
    /\ transactions = [o \in {} |-> 0]
    /\ ratings = [o \in {} |-> 0]
    /\ vendors = [v \in {} |-> 0]
    /\ products = [i \in {} |-> 0]
    /\ reputation = [u \in Users |-> IF u = "cust" THEN reportPoints ELSE 0]
    /\ alerts = [a \in {} |-> 0]
    /\ reports = [r \in {1} |-> NewReport("cust", "LEAK", 0, 0)]
    /\ NoOtp
    /\ pc = [p \in AllProcs |-> "idle"]
    /\ req = [p \in AllProcs |-> NoReq]
    /\ snap = [p \in AllProcs |-> NoSnap]
    /\ res = [p \in AllProcs |-> "none"]

AdminScope(p) ==
    req[p].op = "reportStatus"
       => /\ req[p].userId = "admin" /\ req[p].id = 1
          /\ req[p].resolution = "undefined"

NextReportsConc ==
    \E p \in ConcProcs :
        \/ ReportStatusBegin(p) /\ AdminScope(p)'
        \/ ReportStatusBonus(p)
        \/ ReportStatusWrite(p)
        \/ Return(p)

SpecReportsConc == InitReported /\ [][NextReportsConc]_vars

\* Report creations in flight together: the handlers of up to MaxInFlight
\* accepted leak reports interleave at their awaits.
CreateScope(p) ==
    /\ res[p] \in {"none", "OK"}
    /\ req[p].op = "createReport" => req[p].type = "LEAK"

NextCreateReportConc ==
    \E p \in ConcProcs :
        \/ CreateReportBegin(p) /\ CreateScope(p)'
        \/ CreateReportWrite(p)
        \/ CreateReportVerifySelf(p)
        \/ CreateReportVerifyNearby(p)
        \/ CreateReportPoints(p)
        \/ Return(p)

SpecCreateReportConc == InitCatalog /\ [][NextCreateReportConc]_vars

\* Ratings in flight together: the customer's two orders with the vendor have
\* been paid, delivered and confirmed, and the handlers of up to MaxInFlight
\* accepted rate requests interleave at their awaits.
CompletedOrderIds == {"ord_1", "ord_2"}

CompletedOrder ==
    Apply(NewOrder("cust", "vnd_abu",
                   <<[productId |-> "prd_20l", quantity |-> 2,
                      unitPrice |-> 5000, totalPrice |-> 10000]>>, 5000),
          [status |-> "COMPLETED", acceptedAt |-> "SET", deliveredAt |-> "SET",
           completedAt |-> "SET"])

ReleasedTransaction ==
    ReleaseEscrow([amount |-> CompletedOrder.totalAmount,
                   provider |-> "ORANGE_MONEY", status |-> "COMPLETED",
                   escrowStatus |-> "HELD", escrowReleasedAt |-> "NULL"])

InitCompleted ==
    /\ orders = [o \in CompletedOrderIds |-> CompletedOrder]
    /\ transactions = [o \in CompletedOrderIds |-> ReleasedTransaction]
    /\ ratings = [o \in {} |-> 0]
    /\ vendors = [v \in VendorIds |->
                    [userId |-> "vend", isActive |-> TRUE, isVerified |-> TRUE,
                     deliveryFee |-> 5000, minOrder |-> 10000,
                     ratingSum |-> 0, ratingCount |-> 0]]
    /\ products = [i \in ProductIds |->
                     IF i = "prd_20l"
                     THEN [vendorId |-> "vnd_abu", price |-> 5000, isAvailable |-> TRUE]
                     ELSE [vendorId |-> "vnd_abu", price |-> 10000, isAvailable |-> TRUE]]
    /\ reputation = [u \in Users |-> 0]
    /\ alerts = [a \in {} |-> 0]
    /\ reports = [r \in {} |-> 0]
    /\ NoOtp
    /\ pc = [p \in AllProcs |-> "idle"]
    /\ req = [p \in AllProcs |-> NoReq]
    /\ snap = [p \in AllProcs |-> NoSnap]
    /\ res = [p \in AllProcs |-> "none"]

RateScope(p) ==
    /\ res[p] \in {"none", "OK"}
    /\ req[p].op = "rate" => req[p].userId = "cust"

NextRateConc ==
    \E p \in ConcProcs :
        \/ RateBegin(p) /\ RateScope(p)'
        \/ RateCreate(p) /\ RateScope(p)'
        \/ RateAggregate(p)
        \/ RateVendorWrite(p)
        \/ RateUserWrite(p)
        \/ Return(p)

SpecRateConc == InitCompleted /\ [][NextRateConc]_vars

----------------------------------------------------------------------------
(* Sign-in by one-time code: services/auth.service.ts *)

\* A phone number is the sequence of its characters.
Digits == {"0", "1", "2", "3", "4", "5", "6", "7", "8", "9"}

\* phone.replace(/[^\d]/g, '')
RECURSIVE OnlyDigits(_)
OnlyDigits(phone) ==
    IF phone = << >> THEN << >>
    ELSE IF Head(phone) \in Digits
         THEN <<Head(phone)>> \o OnlyDigits(Tail(phone))
         ELSE OnlyDigits(Tail(phone))

\* cleaned.replace(/^0+/, '')
RECURSIVE NoLeadingZeros(_)
NoLeadingZeros(cleaned) ==
    IF cleaned # << >> /\ Head(cleaned) = "0"
    THEN NoLeadingZeros(Tail(cleaned))
    ELSE cleaned

CountryCode == <<"2", "3", "2">>

StartsWith(s, prefix) ==
    Len(s) >= Len(prefix) /\ SubSeq(s, 1, Len(prefix)) = prefix

normalizePhone(phone) ==
    LET cleaned == NoLeadingZeros(OnlyDigits(phone))
    IN  <<"+">> \o (IF StartsWith(cleaned, CountryCode)
                    THEN cleaned
                    ELSE CountryCode \o cleaned)

\* The phones of the requests: one number in the four formats validatePhone
\* admits, and a second number.
PhoneInputs ==
    { <<"+", "2", "3", "2", "7", "6", "1", "2", "3", "4", "5", "6">>,
      <<"2", "3", "2", "7", "6", "1", "2", "3", "4", "5", "6">>,
      <<"0", "7", "6", "1", "2", "3", "4", "5", "6">>,
      <<"7", "6", "1", "2", "3", "4", "5", "6">>,
      <<"0", "7", "7", "6", "5", "4", "3", "2", "1">> }

\* The codes generateOtp draws and the codes a caller sends
OtpInputs == {"123456", "654321"}

maxAttempts == 3

\* Calls of verifyOtp with a code other than the issued one that the model
\* follows for one issued code.
MaxWrongCodes == 3

\* otpCode.create: attempts and verified take their column defaults. expired
\* stands for expiresAt < new Date().
NewOtpCode(phone, code) ==
    [phone |-> phone, code |-> code, expired |-> FALSE, verified |-> FALSE,
     attempts |-> 0]

\* a table without row k
Without(table, k) == [x \in DOMAIN table \ {k} |-> table[x]]

\* requestOtp: the code is drawn and the phone's earlier codes are deleted
RequestOtpBegin(p) ==
    /\ pc[p] = "idle"
    /\ \E phone \in PhoneInputs, code \in OtpInputs :
         /\ req' = [req EXCEPT ![p] = [op |-> "requestOtp", phone |-> phone,
                                       code |-> code]]
         /\ otpCodes' = Without(otpCodes, normalizePhone(phone))
    /\ Goto(p, "ro_create")
    /\ UNCHANGED <<orders, transactions, ratings, vendors, products, reputation,
                   alerts, reports, userPhones, refreshTokens, wrongCodes, snap,
                   issuedCodes, storage, sent>>

\* requestOtp: the new code is stored
RequestOtpCreate(p) ==
    /\ pc[p] = "ro_create"
    /\ LET normalizedPhone == normalizePhone(req[p].phone)
       IN  /\ otpCodes' = Put(otpCodes, normalizedPhone,
                              NewOtpCode(normalizedPhone, req[p].code))
           /\ wrongCodes' = Put(wrongCodes, normalizedPhone, 0)
           /\ issuedCodes' = Put(issuedCodes, normalizedPhone,
                                 [code |-> req[p].code, used |-> FALSE])
    /\ Finish(p, "OK")
    /\ UNCHANGED <<orders, transactions, ratings, vendors, products, reputation,
                   alerts, reports, userPhones, refreshTokens, req, snap,
                   storage, sent>>

\* otpCode.findFirst({ phone, code, verified: false })
FindOtp(normalizedPhone, code) ==
    IF /\ normalizedPhone \in DOMAIN otpCodes
       /\ otpCodes[normalizedPhone].code = code
       /\ ~otpCodes[normalizedPhone].verified
    THEN otpCodes[normalizedPhone]
    ELSE NoSnap

\* verifyOtp: the code is looked up, and its expiry and attempts are checked
VerifyOtpBegin(p) ==
    /\ pc[p] = "idle"
    /\ \E phone \in PhoneInputs, code \in OtpInputs :
         LET normalizedPhone == normalizePhone(phone)
             otpRecord == FindOtp(normalizedPhone, code)
             wrong == /\ normalizedPhone \in DOMAIN otpCodes
                      /\ otpCodes[normalizedPhone].code # code
         IN  /\ wrong => wrongCodes[normalizedPhone] < MaxWrongCodes
             /\ req' = [req EXCEPT ![p] = [op |-> "verifyOtp", phone |-> phone,
                                           code |-> code]]
             /\ wrongCodes' = IF wrong
                              THEN [wrongCodes EXCEPT ![normalizedPhone] = @ + 1]
                              ELSE wrongCodes
             /\ IF otpRecord = NoSnap
                THEN /\ Finish(p, "InvalidOtp")
                     /\ UNCHANGED snap
                ELSE /\ snap' = [snap EXCEPT ![p] = otpRecord]
                     /\ IF otpRecord.expired
                        THEN Goto(p, "vo_expired")
                        ELSE IF otpRecord.attempts >= maxAttempts
                        THEN Goto(p, "vo_max")
                        ELSE Goto(p, "vo_attempts")
    /\ UNCHANGED <<orders, transactions, ratings, vendors, products, reputation,
                   alerts, reports, otpCodes, userPhones, refreshTokens,
                   issuedCodes, storage, sent>>

\* verifyOtp: a code that is expired or out of attempts is deleted
VerifyOtpDiscard(p) ==
    /\ pc[p] \in {"vo_expired", "vo_max"}
    /\ otpCodes' = Without(otpCodes, snap[p].phone)
    /\ Finish(p, IF pc[p] = "vo_expired" THEN "OtpExpired" ELSE "OtpMaxAttempts")
    /\ UNCHANGED <<orders, transactions, ratings, vendors, products, reputation,
                   alerts, reports, userPhones, refreshTokens, wrongCodes, req, snap,
                   issuedCodes, storage, sent>>

\* verifyOtp: the attempt is counted, and the code read is compared
VerifyOtpAttempts(p) ==
    /\ pc[p] = "vo_attempts"
    /\ otpCodes' = [otpCodes EXCEPT ![snap[p].phone] =
                       Apply(@, [attempts |-> @.attempts + 1])]
    /\ IF snap[p].code # req[p].code
       THEN Finish(p, "InvalidOtp")
       ELSE Goto(p, "vo_delete")
    /\ UNCHANGED <<orders, transactions, ratings, vendors, products, reputation,
                   alerts, reports, userPhones, refreshTokens, wrongCodes, req, snap,
                   issuedCodes, storage, sent>>

\* VerifyOtpDelete with the verified code left in the table
VerifyOtpDeleteKeeping(p) ==
    /\ pc[p] = "vo_delete"
    /\ Goto(p, "vo_user")
    /\ UNCHANGED <<dbVars, req, snap>>

\* verifyOtp: the verified code is deleted
VerifyOtpDelete(p) ==
    /\ pc[p] = "vo_delete"
    /\ otpCodes' = Without(otpCodes, snap[p].phone)
    /\ Goto(p, "vo_user")
    /\ UNCHANGED <<orders, transactions, ratings, vendors, products, reputation,
                   alerts, reports, userPhones, refreshTokens, wrongCodes, req, snap,
                   issuedCodes, storage, sent>>

\* verifyOtp: the user of the phone is found or created
VerifyOtpUser(p) ==
    /\ pc[p] = "vo_user"
    /\ userPhones' = userPhones \cup {normalizePhone(req[p].phone)}
    /\ Goto(p, "vo_tokens")
    /\ UNCHANGED <<orders, transactions, ratings, vendors, products, reputation,
                   alerts, reports, otpCodes, refreshTokens, wrongCodes, req, snap,
                   issuedCodes, storage, sent>>

\* generateTokens: the refresh token is stored and the tokens are answered
VerifyOtpTokens(p) ==
    /\ pc[p] = "vo_tokens"
    /\ refreshTokens' = refreshTokens \cup {normalizePhone(req[p].phone)}
    /\ issuedCodes' = [issuedCodes EXCEPT ![normalizePhone(req[p].phone)] =
                          Apply(@, [used |-> TRUE])]
    /\ Finish(p, "OK")
    /\ UNCHANGED <<orders, transactions, ratings, vendors, products, reputation,
                   alerts, reports, otpCodes, userPhones, wrongCodes, req, snap,
                   storage, sent>>

\* The clock passes the expiresAt of a stored code, between requests.
OtpExpires ==
    /\ \A p \in AllProcs : pc[p] = "idle"
    /\ \E ph \in DOMAIN otpCodes :
         /\ ~otpCodes[ph].expired
         /\ otpCodes' = [otpCodes EXCEPT ![ph] = Apply(@, [expired |-> TRUE])]
    /\ UNCHANGED <<orders, transactions, ratings, vendors, products, reputation,
                   alerts, reports, userPhones, refreshTokens, wrongCodes, reqVars,
                   issuedCodes, storage, sent>>

\* Sign-in requests, one at a time, from the seed with the vendor active.
NextAuth ==
    \/ \E p \in SeqProcs :
          \/ RequestOtpBegin(p) \/ RequestOtpCreate(p)
          \/ VerifyOtpBegin(p) \/ VerifyOtpDiscard(p) \/ VerifyOtpAttempts(p)
          \/ VerifyOtpDelete(p) \/ VerifyOtpUser(p) \/ VerifyOtpTokens(p)
          \/ Return(p)
    \/ OtpExpires

SpecAuth == InitCatalog /\ [][NextAuth]_vars

----------------------------------------------------------------------------
(* The mobile client: mobile/src/services/api.ts *)

\* The calls followed: four of the methods that go through the api instance
UrlInputs == {"GET /users/me", "GET /orders", "POST /orders", "POST /reports"}

\* The statuses the server answers a request with
StatusInputs == {200, 401, 500}

\* Token refreshes the model follows within one call.
MaxRefreshes == 3

NoTokens == [accessToken |-> "NULL", refreshToken |-> "NULL"]

\* setTokens after a sign-in
ClientSignIn ==
    /\ \A p \in AllProcs : pc[p] = "idle"
    /\ storage = NoTokens
    /\ storage' = [accessToken |-> "tok_signin", refreshToken |-> "tok_refresh"]
    /\ UNCHANGED <<orders, transactions, ratings, vendors, products, reputation,
                   alerts, reports, otpCodes, userPhones, refreshTokens, wrongCodes,
                   issuedCodes, sent, reqVars>>

\* a call through the api instance: the request interceptor adds the stored token
ApiSend(p) ==
    /\ pc[p] = "idle"
    /\ \E url \in UrlInputs :
         req' = [req EXCEPT ![p] = [op |-> "apiCall", url |-> url,
                                    Authorization |-> storage.accessToken]]
    /\ sent' = [requests |-> 1, refreshes |-> 0]
    /\ Goto(p, "api_wait")
    /\ UNCHANGED <<orders, transactions, ratings, vendors, products, reputation,
                   alerts, reports, otpCodes, userPhones, refreshTokens, wrongCodes,
                   issuedCodes, storage, snap>>

\* the response interceptor: a response passes; an error with status 401 and a
\* stored refresh token posts /auth/refresh; any other error is rejected
ApiResponse(p) ==
    /\ pc[p] = "api_wait"
    /\ \E status \in StatusInputs :
         IF status = 200
         THEN /\ Finish(p, "OK")
              /\ UNCHANGED sent
         ELSE IF status = 401 /\ storage.refreshToken # "NULL"
         THEN /\ sent.refreshes < MaxRefreshes
              /\ sent' = [sent EXCEPT !.refreshes = @ + 1]
              /\ Goto(p, "api_refresh")
         ELSE /\ Finish(p, IF status = 401 THEN "Rejected401" ELSE "Rejected500")
              /\ UNCHANGED sent
    /\ UNCHANGED <<orders, transactions, ratings, vendors, products, reputation,
                   alerts, reports, otpCodes, userPhones, refreshTokens, wrongCodes,
                   issuedCodes, storage, req, snap>>

\* the refresh answered: the new token is stored and the original request sent
\* again through the api instance, or the tokens are cleared and the error rejected
RefreshResponse(p) ==
    /\ pc[p] = "api_refresh"
    /\ \E refreshed \in BOOLEAN :
         IF refreshed
         THEN /\ storage' = [storage EXCEPT !.accessToken = "tok_refreshed"]
              /\ req' = [req EXCEPT ![p] = Apply(@, [Authorization |-> "tok_refreshed"])]
              /\ sent' = [sent EXCEPT !.requests = @ + 1]
              /\ Goto(p, "api_wait")
         ELSE /\ storage' = NoTokens
              /\ Finish(p, "Rejected401")
              /\ UNCHANGED <<req, sent>>
    /\ UNCHANGED <<orders, transactions, ratings, vendors, products, reputation,
                   alerts, reports, otpCodes, userPhones, refreshTokens, wrongCodes,
                   issuedCodes, snap>>

\* The client's calls, one at a time, against a server that answers as it likes.
NextClient ==
    \/ ClientSignIn
    \/ \E p \in SeqProcs :
          \/ ApiSend(p) \/ ApiResponse(p) \/ RefreshResponse(p) \/ Return(p)

SpecClient == InitCatalog /\ [][NextClient]_vars

----------------------------------------------------------------------------
(* Steps of a handler, as the claims speak of them *)

\* slot p takes a request of route op
Begins(p, op) == pc[p] = "idle" /\ req'[p].op = op

\* slot p, handling a request of route op, sends its response
Responds(p, op) == pc[p] # "done" /\ pc'[p] = "done" /\ req'[p].op = op

\* the handler of slot p rejects its request in this step
Rejects(p, op) == Responds(p, op) /\ res'[p] \notin {"OK"}

----------------------------------------------------------------------------
(* C1 *)

\* The transition table of the order state machine, with the two moves its
\* operations add to it: accept's double hop PENDING -> PAYMENT_PENDING and
\* cancel from every cancellable status.
TransitionTable ==
    { <<"PENDING", "ACCEPTED">>, <<"PENDING", "CANCELLED">>,
      <<"ACCEPTED", "PAYMENT_PENDING">>, <<"ACCEPTED", "CANCELLED">>,
      <<"PAYMENT_PENDING", "PAID">>, <<"PAYMENT_PENDING", "CANCELLED">>,
      <<"PAID", "PREPARING">>,
      <<"PREPARING", "OUT_FOR_DELIVERY">>, <<"PREPARING", "CANCELLED">>,
      <<"OUT_FOR_DELIVERY", "DELIVERED">>,
      <<"DELIVERED", "COMPLETED">>,
      <<"PENDING", "PAYMENT_PENDING">>, <<"PAID", "CANCELLED">> }

\* C1: every change of an order's status, by whichever handler, is an edge of the
\* transition table; so a COMPLETED or CANCELLED order keeps its status, and PAID
\* is entered from PAYMENT_PENDING only.
C1_StatusChangesFollowTable ==
    [][\A o \in DOMAIN orders :
          orders'[o].status # orders[o].status
              => <<orders[o].status, orders'[o].status>> \in TransitionTable]_vars

----------------------------------------------------------------------------
(* C3 *)

\* C3: in every reachable state a transaction whose escrow is HELD has status
\* COMPLETED.
C3_HeldOnlyWhenCompleted ==
    \A o \in DOMAIN transactions :
        transactions[o].escrowStatus = "HELD" => transactions[o].status = "COMPLETED"

----------------------------------------------------------------------------
(* C5 *)

\* C5: no reachable state, the states between a handler's writes included, shows
\* an order COMPLETED with its escrow still HELD, or an order CANCELLED with its
\* transaction still COMPLETED and its escrow still HELD.
C5_OrderAndEscrowChangeTogether ==
    \A o \in DOMAIN orders :
        o \in DOMAIN transactions =>
            /\ ~(orders[o].status = "COMPLETED" /\ transactions[o].escrowStatus = "HELD")
            /\ ~(/\ orders[o].status = "CANCELLED"
                 /\ transactions[o].status = "COMPLETED"
                 /\ transactions[o].escrowStatus = "HELD")

----------------------------------------------------------------------------
(* C2 *)

\* the actor may update the order: the order exists and the actor is its vendor
\* or an administrator
MayUpdate(u, id) ==
    /\ id \in DOMAIN orders
    /\ UserRole(u) \in {"VENDOR", "ADMIN"}
    /\ vendors[orders[id].vendorId].userId = u \/ UserRole(u) = "ADMIN"

\* the allowed-next sets as the claim lists them
ClaimedAllowedNext(status) ==
    CASE status = "PENDING"          -> {"ACCEPTED", "CANCELLED"}
      [] status = "ACCEPTED"         -> {"PAYMENT_PENDING", "CANCELLED"}
      [] status = "PAYMENT_PENDING"  -> {"PAID", "CANCELLED"}
      [] status = "PAID"             -> {"PREPARING"}
      [] status = "PREPARING"        -> {"OUT_FOR_DELIVERY", "CANCELLED"}
      [] status = "OUT_FOR_DELIVERY" -> {"DELIVERED"}
      [] status = "DELIVERED"        -> {"COMPLETED"}
      [] OTHER                       -> {}

\* C2 as claimed: a status update by the vendor or an administrator succeeds iff
\* the requested status is in the listed allowed-next set of the current status,
\* and a failed one leaves the order unchanged.
C2_UpdateStatusFollowsClaimedTable ==
    [][\A p \in AllProcs :
          (Responds(p, "updateStatus") /\ MayUpdate(req'[p].userId, req'[p].id))
              => /\ res'[p] = "OK" <=>
                      req'[p].status \in ClaimedAllowedNext(orders[req'[p].id].status)
                 /\ res'[p] # "OK" => orders' = orders]_vars

\* the requested statuses that succeed, per current status
AmendedAllowedNext(status) ==
    CASE status = "PENDING"          -> {"ACCEPTED"}
      [] status = "ACCEPTED"         -> {"PREPARING"}
      [] status = "PAID"             -> {"PREPARING"}
      [] status = "PREPARING"        -> {"OUT_FOR_DELIVERY"}
      [] status = "OUT_FOR_DELIVERY" -> {"DELIVERED"}
      [] OTHER                       -> {}

\* C2 amended: a status update by the vendor or an administrator succeeds iff the
\* requested status is one of ACCEPTED, PREPARING, OUT_FOR_DELIVERY, DELIVERED and
\* is the next status of the current one (PENDING: ACCEPTED; ACCEPTED or PAID:
\* PREPARING; PREPARING: OUT_FOR_DELIVERY; OUT_FOR_DELIVERY: DELIVERED); any other
\* pair fails, with a validation error for a status outside those four and with
\* InvalidTransition otherwise, and leaves the order unchanged.
C2_UpdateStatusFollowsCodeTable ==
    [][\A p \in AllProcs :
          (Responds(p, "updateStatus") /\ MayUpdate(req'[p].userId, req'[p].id))
              => LET requested == req'[p].status
                     current   == orders[req'[p].id].status
                 IN  /\ res'[p] = "OK" <=> requested \in AmendedAllowedNext(current)
                     /\ res'[p] # "OK" =>
                          /\ orders' = orders
                          /\ res'[p] = IF requested \in {"ACCEPTED", "PREPARING",
                                                         "OUT_FOR_DELIVERY", "DELIVERED"}
                                       THEN "InvalidTransition" ELSE "ValidationError"]_vars

\* a vendor's request to move a PREPARING order to CANCELLED was refused as invalid
\* input, and one to move a PAID order to PREPARING went through
C2_Witness ==
    \E p \in AllProcs, o \in DOMAIN orders :
        /\ pc[p] = "done" /\ req[p].op = "updateStatus" /\ req[p].id = o
        /\ req[p].userId = "vend" /\ req[p].status = "CANCELLED"
        /\ res[p] = "ValidationError"
        /\ orders[o].status = "PREPARING"

----------------------------------------------------------------------------
(* C4 *)

\* C4: the write of confirmDelivery that sets an escrow RELEASED and the write of
\* cancel that sets it REFUNDED find that escrow HELD.
C4_ReleaseAndRefundFromHeld ==
    [][\A p \in AllProcs :
          /\ (pc[p] = "cd_write" /\ pc'[p] = "done" /\ snap[p].hasTransaction)
                => transactions[req[p].id].escrowStatus = "HELD"
          /\ (pc[p] = "cn_refund" /\ pc'[p] = "done")
                => transactions[req[p].id].escrowStatus = "HELD"]_vars

----------------------------------------------------------------------------
(* C6 *)

\* C6: of a cancel and an accept that both found the same order PENDING, at most
\* one reports success.
C6_CancelAndAcceptExclude ==
    ~ \E p \in AllProcs, q \in AllProcs :
        /\ p # q
        /\ pc[p] = "done" /\ req[p].op = "cancel" /\ res[p] = "OK"
        /\ pc[q] = "done" /\ req[q].op = "updateStatus" /\ res[q] = "OK"
        /\ req[q].status = "ACCEPTED"
        /\ req[p].id = req[q].id
        /\ snap[p].status = "PENDING" /\ snap[q].status = "PENDING"

----------------------------------------------------------------------------
(* C7 *)

\* C7: the step in which an accept succeeds takes the order from PENDING to
\* PAYMENT_PENDING and sets acceptedAt; no order is ever stored as ACCEPTED.
C7_AcceptLeavesPaymentPending ==
    /\ [][\A p \in AllProcs :
            (Responds(p, "updateStatus") /\ res'[p] = "OK" /\ req'[p].status = "ACCEPTED")
                => /\ orders[req'[p].id].status = "PENDING"
                   /\ orders'[req'[p].id].status = "PAYMENT_PENDING"
                   /\ orders'[req'[p].id].acceptedAt = "SET"]_vars
    /\ [](\A o \in DOMAIN orders : orders[o].status # "ACCEPTED")

\* an accept has just succeeded
C7_Witness ==
    \E p \in AllProcs :
        /\ pc[p] = "done" /\ req[p].op = "updateStatus" /\ req[p].status = "ACCEPTED"
        /\ res[p] = "OK" /\ snap[p].status = "PENDING"
        /\ orders[req[p].id].status = "PAYMENT_PENDING"
        /\ orders[req[p].id].acceptedAt = "SET"

----------------------------------------------------------------------------
(* C8 *)

\* C8: confirmDelivery succeeds iff the actor is the order's customer and the
\* order is DELIVERED; on success the order is COMPLETED with completedAt set and
\* an existing transaction's escrow is RELEASED; a failed call, such as a second
\* one on the order just completed, changes nothing.
C8_ConfirmDelivery ==
    [][\A p \in AllProcs :
          Responds(p, "confirmDelivery")
              => LET u  == req'[p].userId
                     id == req'[p].id
                 IN  /\ res'[p] = "OK" <=>
                            /\ id \in DOMAIN orders
                            /\ orders[id].customerId = u
                            /\ orders[id].status = "DELIVERED"
                     /\ res'[p] = "OK" =>
                            /\ orders'[id].status = "COMPLETED"
                            /\ orders'[id].completedAt = "SET"
                            /\ id \in DOMAIN transactions =>
                                  /\ transactions'[id].escrowStatus = "RELEASED"
                                  /\ transactions'[id].escrowReleasedAt = "SET"
                     /\ res'[p] # "OK" => UNCHANGED dbVars
                     /\ (id \in DOMAIN orders /\ orders[id].status = "COMPLETED")
                            => res'[p] = "InvalidTransition" \/ res'[p] = "Forbidden"]_vars

\* the customer's second confirmDelivery, on the order the first one completed and
\* whose escrow it released, was rejected
C8_Witness ==
    \E p \in AllProcs :
        /\ pc[p] = "done" /\ req[p].op = "confirmDelivery"
        /\ res[p] = "InvalidTransition"
        /\ orders[req[p].id].customerId = req[p].userId
        /\ orders[req[p].id].status = "COMPLETED"
        /\ orders[req[p].id].completedAt = "SET"
        /\ transactions[req[p].id].escrowStatus = "RELEASED"

----------------------------------------------------------------------------
(* C9 *)

\* the precondition of cancel as the claim states it
CancelAllowed(u, id) ==
    /\ id \in DOMAIN orders
    /\ \/ orders[id].customerId = u
       \/ vendors[orders[id].vendorId].userId = u
       \/ UserRole(u) = "ADMIN"
    /\ orders[id].status \in {"PENDING", "ACCEPTED", "PAYMENT_PENDING", "PAID", "PREPARING"}

\* C9: cancel is accepted iff the actor is the customer, the vendor or an
\* administrator and the order is PENDING, ACCEPTED, PAYMENT_PENDING, PAID or
\* PREPARING; a rejected cancel changes nothing; a successful one leaves the order
\* CANCELLED with cancelledAt and the reason stored, a COMPLETED transaction with
\* status and escrow REFUNDED, and any other transaction as it was.
C9_Cancel ==
    [][\A p \in AllProcs :
          /\ Begins(p, "cancel")
                => /\ pc'[p] = "cn_order" <=> CancelAllowed(req'[p].userId, req'[p].id)
                   /\ pc'[p] # "cn_order" => (Rejects(p, "cancel") /\ UNCHANGED dbVars)
          /\ (Responds(p, "cancel") /\ res'[p] = "OK")
                => LET id == req'[p].id
                   IN  /\ snap[p].status \in {"PENDING", "ACCEPTED", "PAYMENT_PENDING",
                                              "PAID", "PREPARING"}
                       /\ orders'[id].status = "CANCELLED"
                       /\ orders'[id].cancelledAt = "SET"
                       /\ req'[p].reason # "NULL" => orders'[id].cancelReason = req'[p].reason
                       /\ id \in DOMAIN transactions =>
                             IF transactions[id].status = "COMPLETED"
                             THEN /\ transactions'[id].status = "REFUNDED"
                                  /\ transactions'[id].escrowStatus = "REFUNDED"
                             ELSE transactions'[id] = transactions[id]]_vars

\* a cancel with a reason, of an order whose payment had completed, has succeeded:
\* the order is CANCELLED and the transaction REFUNDED
C9_Witness ==
    \E p \in AllProcs :
        /\ pc[p] = "done" /\ req[p].op = "cancel" /\ res[p] = "OK"
        /\ req[p].reason # "NULL"
        /\ snap[p].transactionStatus = "COMPLETED"
        /\ orders[req[p].id].status = "CANCELLED"
        /\ orders[req[p].id].cancelReason = req[p].reason
        /\ transactions[req[p].id].status = "REFUNDED"
        /\ transactions[req[p].id].escrowStatus = "REFUNDED"

----------------------------------------------------------------------------
(* C10 *)

\* where a handler stands after reads only
ReadOnlyLabels == {"co_products"}

\* the errors the routes answer with
ErrorResponses ==
    {"Forbidden", "NotFound", "VendorNotFound", "TransactionNotFound", "AlertNotFound",
     "ReportNotFound", "ZoneNotFound", "InvalidTransition", "AlreadyRated",
     "DuplicateReport", "ScoutNotVerified", "VendorUnavailable", "ProductNotFound",
     "ProductUnavailable", "MinimumOrderNotMet", "AlreadyInitiated", "ValidationError"}

\* C10: a request of an order, payment, alert or report route that is answered
\* with an error has changed no stored row: the step that answers leaves every
\* table as it was and is taken before the handler's first write (a handler waits
\* at a read-only label only after steps that wrote nothing), and every answer
\* other than success is one of the errors.
C10_ErrorsChangeNothing ==
    [][\A p \in AllProcs :
          /\ (pc[p] # "done" /\ pc'[p] = "done")
                => res'[p] \in ErrorResponses \cup {"OK"}
          /\ (pc[p] # "done" /\ pc'[p] = "done" /\ res'[p] \in ErrorResponses)
                => /\ UNCHANGED dbVars
                   /\ pc[p] \in {"idle"} \cup ReadOnlyLabels
          /\ (pc[p] # pc'[p] /\ pc'[p] \in ReadOnlyLabels)
                => /\ UNCHANGED dbVars
                   /\ pc[p] \in {"idle"} \cup ReadOnlyLabels]_vars

\* a second report of the same leak by the same user was refused as a duplicate,
\* with that user's first report and another user's stored
C10_Witness ==
    \E p \in AllProcs :
        /\ pc[p] = "done" /\ req[p].op = "createReport" /\ res[p] = "DuplicateReport"
        /\ \E r \in DOMAIN reports :
              /\ reports[r].userId = req[p].userId
              /\ reports[r].location = req[p].location
        /\ \E r \in DOMAIN reports : reports[r].userId # req[p].userId
        /\ reputation[req[p].userId] = reportPoints

----------------------------------------------------------------------------
(* C11 *)

Timestamps == {"acceptedAt", "deliveredAt", "completedAt", "cancelledAt"}

\* the data of the order update that slot p is about to issue, if it is about to
\* issue one
PendingOrderData(p) ==
    CASE pc[p] = "us_write" -> updateData(req[p].status)
      [] pc[p] = "cd_write" -> [status |-> "COMPLETED", completedAt |-> "SET"]
      [] pc[p] = "cn_order" -> CancelData(req[p].reason)
      [] OTHER              -> [status |-> "unwritten"]

\* C11: every order update that writes one of the timestamps acceptedAt,
\* deliveredAt, completedAt, cancelledAt finds that timestamp unset, so each is
\* written at most once.
C11_TimestampsWrittenOnce ==
    [][\A p \in AllProcs : \A f \in Timestamps :
          (pc'[p] # pc[p] /\ f \in DOMAIN PendingOrderData(p))
              => orders[req[p].id][f] = "NULL"]_vars

----------------------------------------------------------------------------
(* C12 *)

\* the precondition of payment initiation as the claim states it
InitiateAllowed(u, id) ==
    /\ id \in DOMAIN orders
    /\ orders[id].customerId = u
    /\ orders[id].status = "PAYMENT_PENDING"
    /\ id \notin DOMAIN transactions

\* C12: a payment initiation is accepted iff the actor is the order's customer,
\* the order is PAYMENT_PENDING and it has no transaction; a rejected one changes
\* nothing; an accepted one creates the order's transaction with the order's
\* totalAmount, status PENDING and escrow NONE; and in every state each
\* transaction belongs to a stored order and carries that order's totalAmount.
C12_OneTransactionPerOrder ==
    /\ [][\A p \in AllProcs :
            /\ Begins(p, "initiate")
                  => /\ pc'[p] = "pi_create" <=> InitiateAllowed(req'[p].userId, req'[p].id)
                     /\ pc'[p] # "pi_create" => (Rejects(p, "initiate") /\ UNCHANGED dbVars)
            /\ (Responds(p, "initiate") /\ res'[p] = "OK")
                  => LET id == req'[p].id
                     IN  /\ id \notin DOMAIN transactions
                         /\ id \in DOMAIN transactions'
                         /\ transactions'[id].amount = orders[id].totalAmount
                         /\ transactions'[id].status = "PENDING"
                         /\ transactions'[id].escrowStatus = "NONE"]_vars
    /\ [](\A o \in DOMAIN transactions :
             /\ o \in DOMAIN orders
             /\ transactions[o].amount = orders[o].totalAmount)

\* the customer's second initiation for an order was refused, the transaction of
\* the first still pending with the order's total
C12_Witness ==
    \E p \in AllProcs :
        /\ pc[p] = "done" /\ req[p].op = "initiate" /\ res[p] = "AlreadyInitiated"
        /\ orders[req[p].id].customerId = req[p].userId
        /\ orders[req[p].id].status = "PAYMENT_PENDING"
        /\ transactions[req[p].id].status = "PENDING"
        /\ transactions[req[p].id].escrowStatus = "NONE"
        /\ transactions[req[p].id].amount = orders[req[p].id].totalAmount

----------------------------------------------------------------------------
(* C13 *)

\* the precondition of rate as the claim states it
RateAllowed(u, id) ==
    /\ id \in DOMAIN orders
    /\ orders[id].customerId = u
    /\ orders[id].status = "COMPLETED"
    /\ id \notin DOMAIN ratings

\* the orders u has rated
RatedBy(u) == { o \in DOMAIN ratings : ratings[o].userId = u }

\* C13: a rate call is accepted iff the actor is the order's customer, the order
\* is COMPLETED and it has no rating; a rejected call changes nothing, and the
\* customer's call on a COMPLETED order that has a rating is rejected as already
\* rated; a stored rating is never replaced or removed; and between requests each
\* user's reputation is the rating constant times the number of orders the user
\* has rated.
C13_RatedOnce ==
    /\ [][\A p \in AllProcs :
            /\ Begins(p, "rate")
                  => LET u == req'[p].userId
                         id == req'[p].id
                     IN  /\ pc'[p] = "rt_create" <=> RateAllowed(u, id)
                         /\ pc'[p] # "rt_create" => (Rejects(p, "rate") /\ UNCHANGED dbVars)
                         /\ (/\ id \in DOMAIN ratings
                             /\ orders[id].customerId = u
                             /\ orders[id].status = "COMPLETED")
                                => res'[p] = "AlreadyRated"
            /\ \A o \in DOMAIN ratings :
                  o \in DOMAIN ratings' /\ ratings'[o] = ratings[o]]_vars
    /\ []((\A p \in AllProcs : pc[p] \in {"idle", "done"})
             => \A u \in Users : reputation[u] = ratingPoints * Cardinality(RatedBy(u)))

\* the customer's second rate call on the completed order was refused as already
\* rated: one rating, one increment of the customer's reputation
C13_Witness ==
    \E p \in AllProcs :
        /\ pc[p] = "done" /\ req[p].op = "rate" /\ res[p] = "AlreadyRated"
        /\ orders[req[p].id].status = "COMPLETED"
        /\ ratings[req[p].id].userId = req[p].userId
        /\ reputation[req[p].userId] = ratingPoints

----------------------------------------------------------------------------
(* C14 *)

\* the sum over line items of quantity times unit price
RECURSIVE LineSum(_)
LineSum(items) ==
    IF items = <<>> THEN 0
    ELSE Head(items).quantity * Head(items).unitPrice + LineSum(Tail(items))

\* the pricing identities of an order row, for a vendor delivery fee
Priced(order, vendorDeliveryFee) ==
    /\ \A k \in 1..Len(order.items) :
          order.items[k].totalPrice = order.items[k].quantity * order.items[k].unitPrice
    /\ order.subtotal = LineSum(order.items)
    /\ order.deliveryFee = vendorDeliveryFee
    /\ order.platformFee = calculatePlatformFee(order.subtotal)
    /\ order.totalAmount = order.subtotal + order.deliveryFee + order.platformFee

\* C14: the order that order creation stores has each line's totalPrice =
\* quantity * unitPrice, the unit price being the product's price, subtotal = the
\* sum of quantity * unitPrice over its lines, deliveryFee = the vendor's delivery
\* fee, platformFee = calculatePlatformFee(subtotal) and totalAmount = subtotal +
\* deliveryFee + platformFee, with one line per requested item.
C14_CreatedOrderIsPriced ==
    [][\A p \in AllProcs : \A o \in OrderIds :
          (o \notin DOMAIN orders /\ o \in DOMAIN orders' /\ pc[p] = "co_create"
              /\ pc'[p] = "done")
              => /\ Priced(orders'[o], vendors[orders'[o].vendorId].deliveryFee)
                 /\ Len(orders'[o].items) = Len(req[p].items)
                 /\ \A k \in 1..Len(req[p].items) :
                       /\ orders'[o].items[k].productId = req[p].items[k].productId
                       /\ orders'[o].items[k].quantity = req[p].items[k].quantity
                       /\ orders'[o].items[k].unitPrice
                              = products[req[p].items[k].productId].price]_vars

\* an order of two lines, one jerrycan of each size, has been created: subtotal
\* 15000, delivery 5000, platform fee 750, total 20750
C14_Witness ==
    \E p \in AllProcs, o \in DOMAIN orders :
        /\ pc[p] = "done" /\ req[p].op = "createOrder" /\ res[p] = "OK"
        /\ Len(orders[o].items) = 2
        /\ orders[o].status = "PENDING"
        /\ orders[o].subtotal = 15000
        /\ orders[o].deliveryFee = 5000
        /\ orders[o].platformFee = 750
        /\ orders[o].totalAmount = 20750

----------------------------------------------------------------------------
(* C15 *)

\* every requested product is in the vendor's catalogue and available
AllRequestedAvailable(vendorId, items) ==
    \A k \in 1..Len(items) :
        /\ items[k].productId \in DOMAIN products
        /\ products[items[k].productId].vendorId = vendorId
        /\ products[items[k].productId].isAvailable

\* the subtotal of a request: the sum over its lines of quantity times price
RECURSIVE RequestedSubtotal(_)
RequestedSubtotal(items) ==
    IF items = <<>> THEN 0
    ELSE Head(items).quantity * products[Head(items).productId].price
             + RequestedSubtotal(Tail(items))

\* C15: an order creation for an active, verified vendor whose requested products
\* all exist and are available is rejected with MinimumOrderNotMet, storing
\* nothing, exactly when its subtotal is below the vendor's minimum order, and
\* goes on to store the order otherwise.
C15_MinimumOrder ==
    [][\A p \in AllProcs :
          (/\ pc[p] = "co_products" /\ pc'[p] # pc[p]
           /\ vendors[req[p].vendorId].isActive /\ vendors[req[p].vendorId].isVerified
           /\ AllRequestedAvailable(req[p].vendorId, req[p].items))
              => LET subtotal == RequestedSubtotal(req[p].items)
                     minOrder == vendors[req[p].vendorId].minOrder
                 IN  IF subtotal < minOrder
                     THEN /\ pc'[p] = "done" /\ res'[p] = "MinimumOrderNotMet"
                          /\ UNCHANGED dbVars
                     ELSE pc'[p] = "co_create"]_vars

----------------------------------------------------------------------------
(* C16 *)

\* x * 0.05 rounded to the nearest integer, a half rounding up: the n with
\* n - 1/2 <= x/20 < n + 1/2
RoundedFivePercent(x) ==
    CHOOSE n \in {x \div 20, x \div 20 + 1} : 20 * n - 10 <= x /\ x < 20 * n + 10

Clamp(n, lo, hi) == IF n < lo THEN lo ELSE IF n > hi THEN hi ELSE n

\* C16: for a non-negative integer subtotal, calculatePlatformFee(subtotal) with
\* the default parameters is clamp(round(subtotal * 0.05), 500, 50000), lies in
\* [500, 50000], and is not above the fee of the next subtotal, whether the next
\* integer or the next subtotal tried.
C16_PlatformFee ==
    \A p \in AllProcs :
        (pc[p] = "done" /\ req[p].op = "calculatePlatformFee")
            => LET x == req[p].subtotal IN
               /\ res[p] = Clamp(RoundedFivePercent(x), 500, 50000)
               /\ 500 <= res[p] /\ res[p] <= 50000
               /\ res[p] <= calculatePlatformFee(x + 1)
               /\ res[p] <= calculatePlatformFee(x + SubtotalStep)

\* the fee of a subtotal whose five percent ends in one half, between the two
\* clamps, has come back rounded up
C16_Witness ==
    \E p \in AllProcs :
        /\ pc[p] = "done" /\ req[p].op = "calculatePlatformFee"
        /\ req[p].subtotal % 20 = 10
        /\ res[p] = req[p].subtotal \div 20 + 1
        /\ 500 < res[p] /\ res[p] < 50000

----------------------------------------------------------------------------
(* C17 *)

\* what an order was priced at when it was created
PricedFields(o) ==
    [items       |-> o.items,
     subtotal    |-> o.subtotal,
     deliveryFee |-> o.deliveryFee,
     platformFee |-> o.platformFee,
     totalAmount |-> o.totalAmount]

\* C17: no step of any operation -- a status transition, a payment, a rating, an
\* update or a deletion of the vendor's product, an update of the vendor --
\* changes the line items (product, quantity, unit price, line total), subtotal,
\* delivery fee, platform fee or total of an order that exists, or removes it.
C17_PricedFieldsFrozen ==
    [][\A o \in DOMAIN orders :
          /\ o \in DOMAIN orders'
          /\ PricedFields(orders'[o]) = PricedFields(orders[o])]_vars

\* a completed order still carries the unit price and delivery fee of its
\* creation after the product's price and the vendor's delivery fee were raised,
\* and the deletion of its product has just been refused
C17_Witness ==
    \E p \in AllProcs, o \in DOMAIN orders :
        /\ pc[p] = "done" /\ req[p].op = "deleteProduct" /\ res[p] = "InternalError"
        /\ req[p].productId = orders[o].items[1].productId
        /\ req[p].productId \in DOMAIN products
        /\ orders[o].status = "COMPLETED"
        /\ orders[o].items[1].unitPrice # products[req[p].productId].price
        /\ orders[o].deliveryFee # vendors[orders[o].vendorId].deliveryFee

----------------------------------------------------------------------------
(* C18 *)

\* C18: once an alert's isVerified is true it stays true: no later step -- no
\* later feedback, accurate or not -- sets it back to false.
C18_VerifiedStays ==
    [][\A a \in DOMAIN alerts :
          alerts[a].isVerified => (a \in DOMAIN alerts' /\ alerts'[a].isVerified)]_vars

----------------------------------------------------------------------------
(* C19 *)

\* the number of accurate feedbacks that the stored mean and count stand for
AccurateCount(alert) ==
    IF alert.feedbackScore = NullScore THEN 0
    ELSE (alert.feedbackScore.num * alert.feedbackCount) \div alert.feedbackScore.den

\* C19: feedback given one call after the other.  A new alert has count 0 and no
\* score.  Each submitFeedback call on an alert that exists writes the alert
\* once, raising feedbackCount by one and making feedbackScore (k + 1)/(n + 1)
\* from k/n if it is accurate and k/(n + 1) if it is not, and raises the scout's
\* reputation by the bonus once if it is accurate and not at all if it is not;
\* no other step touches count or score.  So whenever no call is in progress
\* feedbackCount is the number n of calls made, feedbackScore is k/n for the
\* number k of accurate ones, and the scout's reputation is what the alert
\* earned plus k times the bonus.
C19_SequentialFeedback ==
    /\ [][\A p \in SeqProcs :
            /\ (Begins(p, "feedback") /\ req'[p].id \in DOMAIN alerts)
                  => (pc'[p] = "fb_alert" /\ UNCHANGED dbVars)
            /\ (pc[p] = "fb_alert" /\ pc'[p] # "fb_alert")
                  => LET a == req[p].id
                         v == IF req[p].accurate THEN 1 ELSE 0
                     IN  /\ alerts'[a].feedbackCount = alerts[a].feedbackCount + 1
                         /\ alerts'[a].feedbackScore =
                               Fraction(AccurateCount(alerts[a]) + v,
                                        alerts[a].feedbackCount + 1)
                         /\ reputation' = reputation
                         /\ pc'[p] = IF req[p].accurate THEN "fb_scout" ELSE "done"
            /\ (pc[p] = "fb_scout" /\ pc'[p] # "fb_scout")
                  => /\ reputation' = [reputation EXCEPT ![alerts[req[p].id].scoutId] =
                                                        @ + accuratePoints]
                     /\ alerts' = alerts
                     /\ pc'[p] = "done" /\ res'[p] = "OK"
            /\ pc[p] # "fb_alert"
                  => \A a \in DOMAIN alerts' :
                        IF a \in DOMAIN alerts
                        THEN /\ alerts'[a].feedbackCount = alerts[a].feedbackCount
                             /\ alerts'[a].feedbackScore = alerts[a].feedbackScore
                        ELSE /\ alerts'[a].feedbackCount = 0
                             /\ alerts'[a].feedbackScore = NullScore]_vars
    /\ [](\A a \in DOMAIN alerts :
            (\A p \in SeqProcs : pc[p] = "idle")
               => LET n == alerts[a].feedbackCount
                      k == AccurateCount(alerts[a])
                  IN  /\ (n = 0) <=> (alerts[a].feedbackScore = NullScore)
                      /\ n > 0 => /\ k \in 0..n
                                  /\ alerts[a].feedbackScore = Fraction(k, n)
                      /\ reputation[alerts[a].scoutId] = alertPoints + accuratePoints * k)

\* three feedbacks given, two of them accurate: count 3, score 2/3, the scout's
\* reputation raised twice
C19_Witness ==
    /\ \A p \in SeqProcs : pc[p] = "idle"
    /\ \E a \in DOMAIN alerts :
         /\ alerts[a].feedbackCount = 3
         /\ alerts[a].feedbackScore = [num |-> 2, den |-> 3]
         /\ reputation[alerts[a].scoutId] = alertPoints + 2 * accuratePoints

----------------------------------------------------------------------------
(* C20 *)

\* C20: whenever the MaxInFlight feedback calls of a round on one alert have all
\* completed, whatever their interleaving, the alert's feedbackCount is the count
\* that the earliest of them read plus MaxInFlight, and its feedbackScore counts
\* every accurate one of them: no feedback is lost.
C20_NoLostFeedback ==
    \A a \in DOMAIN alerts :
        (\A p \in ConcProcs : /\ pc[p] = "done" /\ res[p] = "OK"
                              /\ req[p].op = "feedback" /\ req[p].id = a)
           => LET first == CHOOSE p \in ConcProcs :
                              \A q \in ConcProcs :
                                  snap[p].feedbackCount <= snap[q].feedbackCount
                  m     == Cardinality(ConcProcs)
                  k     == Cardinality({p \in ConcProcs : req[p].accurate})
              IN  /\ alerts[a].feedbackCount = snap[first].feedbackCount + m
                  /\ alerts[a].feedbackScore =
                        Fraction(AccurateCount(snap[first]) + k,
                                 snap[first].feedbackCount + m)

----------------------------------------------------------------------------
(* C21 *)

\* C21: a cancel request is answered OK only when its actor is the scout who
\* created the alert or an administrator; a step of a cancel request changes
\* the alerts only by moving the alert it names from ACTIVE to CANCELLED; an
\* alert whose status is EXPIRED, VERIFIED or CANCELLED is left as it is.
C21_CancelOnlyFromActive ==
    [][\A p \in SeqProcs :
          req'[p].op = "cancelAlert"
             => LET id == req'[p].id IN
                /\ (Responds(p, "cancelAlert") /\ res'[p] = "OK")
                      => /\ id \in DOMAIN alerts
                         /\ \/ alerts[id].scoutId = req'[p].userId
                            \/ UserRole(req'[p].userId) = "ADMIN"
                /\ alerts' # alerts
                      => /\ alerts[id].status = "ACTIVE"
                         /\ alerts' = [alerts EXCEPT ![id] =
                                         Apply(@, [status |-> "CANCELLED"])]
                /\ \A a \in DOMAIN alerts :
                      alerts[a].status \in {"EXPIRED", "VERIFIED", "CANCELLED"}
                         => (a \in DOMAIN alerts' /\ alerts'[a] = alerts[a])]_vars

----------------------------------------------------------------------------
(* C22 *)

\* What creation does for a creator whose role is in roles, the zone existing:
\* it fails with ScoutNotVerified, storing nothing and awarding nothing, exactly
\* when the creator is a SCOUT not verified; otherwise it stores one alert,
\* ACTIVE, not verified, with no feedback, and then raises the creator's
\* reputation by alertPoints once.
CreateAlertAsClaimed(p, roles) ==
    /\ (/\ Begins(p, "createAlert")
        /\ req'[p].zoneId \in Zones
        /\ UserRole(req'[p].userId) \in roles)
          => /\ UNCHANGED dbVars
             /\ IF UserRole(req'[p].userId) = "SCOUT" /\ ~UserIsVerified(req'[p].userId)
                THEN pc'[p] = "done" /\ res'[p] = "ScoutNotVerified"
                ELSE pc'[p] = "ca_create"
    /\ (pc[p] = "ca_create" /\ pc'[p] # "ca_create")
          => /\ \E a \in DOMAIN alerts' \ DOMAIN alerts :
                  /\ DOMAIN alerts' = DOMAIN alerts \cup {a}
                  /\ alerts'[a].scoutId = req[p].userId
                  /\ alerts'[a].status = "ACTIVE"
                  /\ ~alerts'[a].isVerified
                  /\ alerts'[a].feedbackCount = 0
             /\ \A a \in DOMAIN alerts : alerts'[a] = alerts[a]
             /\ reputation' = reputation
             /\ pc'[p] = "ca_points"
    /\ (pc[p] = "ca_points" /\ pc'[p] # "ca_points")
          => /\ reputation' = [reputation EXCEPT ![req[p].userId] = @ + alertPoints]
             /\ alerts' = alerts
             /\ pc'[p] = "done" /\ res'[p] = "OK"
    /\ (Responds(p, "createAlert") /\ res'[p] = "OK") => pc[p] = "ca_points"

\* C22 as stated: the above for every creator, whatever the role.
C22_CreateAlertAnyRole ==
    [][\A p \in SeqProcs : CreateAlertAsClaimed(p, {"SCOUT", "ADMIN", "VENDOR", "CITIZEN"})]_vars

\* C22, amended: the above for a creator whose role is SCOUT or ADMIN; a creator
\* of any other role is refused as Forbidden, and nothing is stored or awarded.
C22_CreateAlertScoutOrAdmin ==
    [][\A p \in SeqProcs :
          /\ CreateAlertAsClaimed(p, {"SCOUT", "ADMIN"})
          /\ (/\ Begins(p, "createAlert")
              /\ UserRole(req'[p].userId) \notin {"SCOUT", "ADMIN"})
                => /\ pc'[p] = "done" /\ res'[p] = "Forbidden"
                   /\ UNCHANGED dbVars]_vars

\* a verified scout's alert is stored and the scout has the award
C22_Witness ==
    \E p \in SeqProcs :
        /\ pc[p] = "done" /\ req[p].op = "createAlert" /\ res[p] = "OK"
        /\ UserRole(req[p].userId) = "SCOUT"
        /\ \E a \in DOMAIN alerts :
             /\ alerts[a].scoutId = req[p].userId
             /\ alerts[a].status = "ACTIVE" /\ alerts[a].feedbackCount = 0
        /\ reputation[req[p].userId] = alertPoints

----------------------------------------------------------------------------
(* C23 *)

\* 50 + 45 * min(reputation, 1000) / 1000 rounded to the nearest integer, a half
\* rounding up: the n with n - 1/2 <= 50 + 45 * capped / 1000 < n + 1/2
RoundedHundredths(r) ==
    LET capped == IF r < 1000 THEN r ELSE 1000
    IN  CHOOSE n \in 50..96 :
            /\ 1000 * n - 500 <= 50000 + 45 * capped
            /\ 50000 + 45 * capped < 1000 * n + 500

\* C23: for a non-negative integer reputation, calculateConfidence(reputation),
\* in hundredths, is round(50 + 45 * min(reputation, 1000) / 1000), lies in
\* [50, 95], is not above the confidence of the next reputation, and is 50 at 0,
\* 70 at 450 and 95 at 1000 and above.
C23_Confidence ==
    \A p \in AllProcs :
        (pc[p] = "done" /\ req[p].op = "calculateConfidence")
            => LET r == req[p].scoutReputation IN
               /\ res[p] = RoundedHundredths(r)
               /\ 50 <= res[p] /\ res[p] <= 95
               /\ res[p] <= calculateConfidence(r + 1)
               /\ r = 0 => res[p] = 50
               /\ r = 450 => res[p] = 70
               /\ r >= 1000 => res[p] = 95

\* the confidence of reputation 450 has come back as 0.70
C23_Witness ==
    \E p \in AllProcs :
        /\ pc[p] = "done" /\ req[p].op = "calculateConfidence"
        /\ req[p].scoutReputation = 450 /\ res[p] = 70

----------------------------------------------------------------------------
(* C24 *)

\* the open reports of a type within the proximity radius of a location
OpenNearby(type, location) ==
    { r \in DOMAIN reports :
        /\ reports[r].type = type
        /\ reports[r].status \in {"PENDING", "VERIFIED", "FORWARDED", "IN_PROGRESS"}
        /\ reports[r].location - location < 100
        /\ location - reports[r].location < 100 }

----------------------------------------------------------------------------
(* C25 *)

\* the reports of a type that a reporter has sent before within the radius
PriorOwn(u, type, location) ==
    { r \in DOMAIN reports :
        /\ reports[r].userId = u
        /\ reports[r].type = type
        /\ calculateDistance(location, reports[r].location) < 100 }

PriorOwnOpen(u, type, location) ==
    { r \in PriorOwn(u, type, location) :
        reports[r].status \in {"PENDING", "VERIFIED", "FORWARDED", "IN_PROGRESS"} }

----------------------------------------------------------------------------
(* C26 *)

\* the bounty the per-type table lists for a type; 5000 for a type it does not list
ListedBounty(type) ==
    CASE type = "LEAK"          -> 20000
      [] type = "BURST_PIPE"    -> 30000
      [] type = "CONTAMINATION" -> 25000
      [] type = "BLOCKED_DRAIN" -> 15000
      [] type = "FLOOD"         -> 20000
      [] type = "BROKEN_TAP"    -> 10000
      [] OTHER                  -> 5000

\* C26: every report is stored with the bounty amount that the per-type table
\* lists for its type, the default 5000 going to an unlisted type alone, and no
\* later step changes the amount.
C26_BountyByType ==
    [][\A r \in DOMAIN reports' :
          /\ reports'[r].bountyAmount = ListedBounty(reports'[r].type)
          /\ r \in DOMAIN reports => reports'[r].bountyAmount = reports[r].bountyAmount]_vars

----------------------------------------------------------------------------
(* C27 *)

\* the place of a status on the way from PENDING to RESOLVED
StatusRank(status) ==
    CASE status = "PENDING"     -> 1
      [] status = "VERIFIED"    -> 2
      [] status = "FORWARDED"   -> 3
      [] status = "IN_PROGRESS" -> 4
      [] status = "RESOLVED"    -> 5
      [] OTHER                  -> 0

\* C27: in every step a report's status stays or moves forward along PENDING,
\* VERIFIED, FORWARDED, IN_PROGRESS, RESOLVED; REJECTED is entered only from a
\* status before RESOLVED and is never left.
C27_ReportStatusAdvances ==
    [][\A r \in DOMAIN reports :
          /\ r \in DOMAIN reports'
          /\ LET from == reports[r].status
                 to   == reports'[r].status
             IN  /\ from = "REJECTED" => to = "REJECTED"
                 /\ (to = "REJECTED" /\ from # "REJECTED") => from # "RESOLVED"
                 /\ (from # "REJECTED" /\ to # "REJECTED")
                       => StatusRank(to) >= StatusRank(from)]_vars

----------------------------------------------------------------------------
(* C29 *)

\* C29: a request to resolve a report that is RESOLVED already is answered with
\* an error, and leaves the report -- its resolvedAt, resolvedBy and resolution --
\* as it is.
C29_ResolveOnce ==
    [][\A p \in SeqProcs :
          (/\ Responds(p, "reportStatus")
           /\ req'[p].status = "RESOLVED"
           /\ req'[p].id \in DOMAIN reports
           /\ reports[req'[p].id].status = "RESOLVED")
             => /\ res'[p] # "OK"
                /\ reports'[req'[p].id].resolvedAt = reports[req'[p].id].resolvedAt
                /\ reports'[req'[p].id].resolvedBy = reports[req'[p].id].resolvedBy
                /\ reports'[req'[p].id].resolution = reports[req'[p].id].resolution]_vars

----------------------------------------------------------------------------
(* C28 *)

\* C28: over the status updates of a report, interleaved or not, bountyPaid
\* never goes back to false and becomes true only in a step that leaves the
\* status RESOLVED; and the reporter has the resolved-report bonus at most once
\* for each report: a reputation of at most the points of the reporter's
\* reports plus one bonus for each.
C28_BountyOnce ==
    /\ [][\A r \in DOMAIN reports :
            /\ r \in DOMAIN reports'
            /\ reports[r].bountyPaid => reports'[r].bountyPaid
            /\ (~reports[r].bountyPaid /\ reports'[r].bountyPaid)
                  => reports'[r].status = "RESOLVED"]_vars
    /\ [](\A u \in Users :
             LET own == Cardinality({r \in DOMAIN reports : reports[r].userId = u})
             IN  reputation[u] <= own * reportPoints + own * verifiedReportBonus)

----------------------------------------------------------------------------
(* C30 *)

\* C30: an issued code admits at most maxAttempts verification attempts: once
\* maxAttempts calls of verifyOtp for a phone have named a code other than the
\* one issued to it, no later verifyOtp for that phone against the same issued
\* code is answered with tokens, the right code included.
C30_OtpAttemptsBounded ==
    [][\A p \in SeqProcs :
          (/\ Responds(p, "verifyOtp")
           /\ normalizePhone(req'[p].phone) \in DOMAIN wrongCodes
           /\ wrongCodes[normalizePhone(req'[p].phone)] >= maxAttempts)
             => res'[p] # "OK"]_vars

----------------------------------------------------------------------------
(* C31 *)

----------------------------------------------------------------------------
(* C32 *)

\* slot p is at the write of a confirmDelivery call on order o made by the
\* order's own customer
ConfirmsOwnDelivery(p, o) ==
    /\ pc[p] = "cd_write" /\ pc'[p] = "done"
    /\ req[p].op = "confirmDelivery" /\ req[p].id = o
    /\ o \in DOMAIN orders /\ req[p].userId = orders[o].customerId

\* C32: an order becomes COMPLETED, and a transaction's escrow becomes
\* RELEASED, only in the write of a confirmDelivery call made by the order's
\* own customer: no status update, webhook or other request produces either.
C32_CompletedOnlyByCustomer ==
    [][/\ \A o \in DOMAIN orders' :
            (/\ orders'[o].status = "COMPLETED"
             /\ (o \in DOMAIN orders => orders[o].status # "COMPLETED"))
               => \E p \in AllProcs : ConfirmsOwnDelivery(p, o)
       /\ \A o \in DOMAIN transactions' :
            (/\ transactions'[o].escrowStatus = "RELEASED"
             /\ (o \in DOMAIN transactions => transactions[o].escrowStatus # "RELEASED"))
               => \E p \in AllProcs : ConfirmsOwnDelivery(p, o)]_vars

\* a delivery confirmed: the order COMPLETED and its escrow RELEASED
C32_Witness ==
    \E o \in DOMAIN orders :
        /\ orders[o].status = "COMPLETED"
        /\ o \in DOMAIN transactions
        /\ transactions[o].escrowStatus = "RELEASED"

----------------------------------------------------------------------------
(* C33 *)

\* the status of order o in table t, NONE before the order is stored
StatusIn(t, o) == IF o \in DOMAIN t THEN t[o].status ELSE "NONE"

\* slot p is at the write of a SUCCESS webhook for order o
WritesPaymentSuccess(p, o) ==
    /\ pc[p] = "wh_write" /\ pc'[p] = "done"
    /\ req[p].op = "webhook" /\ req[p].id = o /\ req[p].status = "SUCCESS"

\* C33: with one request at a time an order is in PREPARING, OUT_FOR_DELIVERY,
\* DELIVERED or COMPLETED only after a SUCCESS payment webhook was processed for
\* it.  Stated step by step: an order becomes PAID only in the write of a
\* SUCCESS webhook for it, and it enters PREPARING only from PAID,
\* OUT_FOR_DELIVERY only from PREPARING, DELIVERED only from OUT_FOR_DELIVERY
\* and COMPLETED only from DELIVERED, so that whatever status updates a vendor
\* sends, preparation and delivery are behind the payment.
C33_PreparedOnlyAfterPayment ==
    [][\A o \in DOMAIN orders' :
          StatusIn(orders', o) # StatusIn(orders, o)
             => /\ StatusIn(orders', o) = "PAID"
                     => \E p \in SeqProcs : WritesPaymentSuccess(p, o)
                /\ StatusIn(orders', o) = "PREPARING"
                     => StatusIn(orders, o) = "PAID"
                /\ StatusIn(orders', o) = "OUT_FOR_DELIVERY"
                     => StatusIn(orders, o) = "PREPARING"
                /\ StatusIn(orders', o) = "DELIVERED"
                     => StatusIn(orders, o) = "OUT_FOR_DELIVERY"
                /\ StatusIn(orders', o) = "COMPLETED"
                     => StatusIn(orders, o) = "DELIVERED"]_vars

\* a paid order that the vendor has sent out for delivery
C33_Witness ==
    \E o \in DOMAIN orders :
        /\ orders[o].status = "OUT_FOR_DELIVERY"
        /\ o \in DOMAIN transactions
        /\ transactions[o].status = "COMPLETED"

----------------------------------------------------------------------------
(* C34 *)

\* C34: whenever the requests in flight, a cancel and payment webhooks on the
\* same order among them, have all completed, no CANCELLED order has a
\* transaction whose escrow is HELD.
C34_CancelledNeverHeld ==
    (\A p \in AllProcs : pc[p] = "idle")
       => \A o \in DOMAIN orders :
             (orders[o].status = "CANCELLED" /\ o \in DOMAIN transactions)
                => transactions[o].escrowStatus # "HELD"

----------------------------------------------------------------------------
(* C35 *)

PaidStatuses == {"PAID", "PREPARING", "OUT_FOR_DELIVERY", "DELIVERED", "COMPLETED"}

----------------------------------------------------------------------------
(* C36 *)

\* C36: an order creation whose line items all name products of the vendor's
\* catalogue is never answered with ProductNotFound, two line items naming the
\* same product included.
C36_CatalogueItemsFound ==
    [][\A p \in SeqProcs :
          (/\ Responds(p, "createOrder")
           /\ \A k \in 1..Len(req'[p].items) :
                 /\ req'[p].items[k].productId \in DOMAIN products
                 /\ products[req'[p].items[k].productId].vendorId = req'[p].vendorId)
             => res'[p] # "ProductNotFound"]_vars

----------------------------------------------------------------------------
(* C37 *)

\* C37: whenever the rate calls in flight, on different orders of one vendor,
\* have all completed, the vendor's ratingCount is the number of its stored
\* ratings and its rating is their mean: the sum of their scores over their
\* number.
C37_VendorRatingIsMean ==
    (\A p \in AllProcs : pc[p] = "idle")
       => \A v \in DOMAIN vendors :
             LET mine == { i \in DOMAIN ratings : ratings[i].vendorId = v }
             IN  /\ vendors[v].ratingCount = Cardinality(mine)
                 /\ vendors[v].ratingSum = SumScores(mine)

----------------------------------------------------------------------------
(* C38 *)

OpenStatuses == {"PENDING", "VERIFIED", "FORWARDED", "IN_PROGRESS"}

\* C38: whenever the report creations in flight have all completed, no
\* reporter has two open reports of one type within duplicateRadius of each
\* other: of two submissions of one incident by one reporter made together, at
\* most one is stored.
C38_NoDuplicateOpenReports ==
    (\A p \in AllProcs : pc[p] = "idle")
       => \A r1 \in DOMAIN reports, r2 \in DOMAIN reports :
             (/\ r1 # r2
              /\ reports[r1].userId = reports[r2].userId
              /\ reports[r1].type = reports[r2].type
              /\ reports[r1].status \in OpenStatuses
              /\ reports[r2].status \in OpenStatuses)
                => calculateDistance(reports[r1].location, reports[r2].location)
                      >= duplicateRadius

----------------------------------------------------------------------------
(* C39 *)

\* C39: the client's handling of a 401 ends: one call through the api instance
\* makes at most one token refresh and sends its request at most twice, the
\* first time and one retry, whatever the server answers to the retry and to
\* the refresh.
C39_OneRefreshOneRetry ==
    sent.refreshes <= 1 /\ sent.requests <= 2

====
